---- MODULE Spec2Model ----
(***************************************************************************)
(* Multi-source satellite registry: the envelope store (db.py), the        *)
(* canonicalizer (update_canonical), the attribute promoter                *)
(* (promote_attributes.py), the merge-by-name tool                         *)
(* (merge_kaggle_sources.py), the Space-Track importer                     *)
(* (import_spacetrack_tle.py) with its thread pool, the CelesTrak          *)
(* importers (import_celestrak_tle.py, import_celestrak_tle_sample.py),    *)
(* the search and count queries of db.py and the caches of api.py.         *)
(*                                                                         *)
(* Documents are Python dicts.  A Python value is a tagged record:         *)
(*   [t |-> "none"]                    None                                *)
(*   [t |-> "str",  v |-> s]           a string                            *)
(*   [t |-> "int",  v |-> n]           a number / a timestamp              *)
(*   [t |-> "list", v |-> seq]         a list                              *)
(*   [t |-> "path", v |-> seq]         a dotted path string, tokenized     *)
(*   [t |-> "text", v |-> seq]         a string, character by character    *)
(*   [t |-> "map",  k |-> seq, v |-> f] a dict: keys in insertion order k, *)
(*                                     contents f                          *)
(* datetime.now() is a logical clock `now` that ticks with every store    *)
(* write; all readings one handler takes are the same instant.  In the     *)
(* cache specification `now` is time.time() in seconds.                    *)
(***************************************************************************)
EXTENDS Integers, Sequences, FiniteSets, TLC

VARIABLES store, nextId, now, pc, loc, lastWrite, cdoc, cprev, cruns

vars == <<store, nextId, now, pc, loc, lastWrite, cdoc, cprev, cruns>>

(***************************************************************************)
(* Bounds                                                                  *)
(***************************************************************************)
MaxDocs == 2
MaxTime == 3
MaxSrcs == 3
MaxRuns == 2
MaxPathLen == 3
MaxArgLen == 3
MaxColl == 12
MaxFeeds == 4

(***************************************************************************)
(* Python values                                                           *)
(***************************************************************************)
PyNone == [t |-> "none"]
Str(s) == [t |-> "str", v |-> s]
Num(n) == [t |-> "int", v |-> n]
List(q) == [t |-> "list", v |-> q]
Path(p) == [t |-> "path", v |-> p]
Dict(k, f) == [t |-> "map", k |-> k, v |-> f]
EmptyDict == Dict(<<>>, <<>>)

IsDict(x) == x.t = "map"
Has(d, key) == key \in DOMAIN d.v
Get(d, key) == IF Has(d, key) THEN d.v[key] ELSE PyNone
Put(d, key, val) ==
    IF Has(d, key) THEN [d EXCEPT !.v[key] = val]
    ELSE Dict(Append(d.k, key), d.v @@ (key :> val))
Keys(d) == d.k

RECURSIVE DelKey(_, _)
DelKey(q, key) ==
    IF q = <<>> THEN <<>>
    ELSE IF Head(q) = key THEN Tail(q)
    ELSE <<Head(q)>> \o DelKey(Tail(q), key)

InSeq(x, q) == \E i \in 1..Len(q) : q[i] = x

(***************************************************************************)
(* db.get_nested_field / db.set_nested_field / db.record_transformation    *)
(***************************************************************************)
RECURSIVE get_nested_field(_, _)
get_nested_field(obj, keys) ==
    IF keys = <<>> THEN obj
    ELSE IF ~IsDict(obj) THEN PyNone
    ELSE IF ~Has(obj, Head(keys)) THEN PyNone
    ELSE get_nested_field(obj.v[Head(keys)], Tail(keys))

\* Mutant: a scalar in the way is replaced by an empty map before the call
\* gives up.
RECURSIVE SetNestedClearsScalar(_, _, _)
SetNestedClearsScalar(cur, keys, value) ==
    IF Len(keys) = 1 THEN [ok |-> TRUE, obj |-> Put(cur, keys[1], value)]
    ELSE LET key == Head(keys) IN
         IF ~Has(cur, key)
         THEN LET r == SetNestedClearsScalar(EmptyDict, Tail(keys), value)
              IN  [ok |-> r.ok, obj |-> Put(cur, key, r.obj)]
         ELSE IF ~IsDict(cur.v[key])
         THEN [ok |-> FALSE, obj |-> Put(cur, key, EmptyDict)]
         ELSE LET r == SetNestedClearsScalar(cur.v[key], Tail(keys), value)
              IN  [ok |-> r.ok, obj |-> Put(cur, key, r.obj)]

\* Returns the flag and the object as the in-place mutation leaves it.
RECURSIVE set_nested_field(_, _, _)
set_nested_field(cur, keys, value) ==
    IF Len(keys) = 1 THEN [ok |-> TRUE, obj |-> Put(cur, keys[1], value)]
    ELSE LET key == Head(keys) IN
         IF ~Has(cur, key)
         THEN LET r == set_nested_field(EmptyDict, Tail(keys), value)
              IN  [ok |-> r.ok, obj |-> Put(cur, key, r.obj)]
         ELSE IF ~IsDict(cur.v[key])
         THEN [ok |-> FALSE, obj |-> cur]
         ELSE LET r == set_nested_field(cur.v[key], Tail(keys), value)
              IN  [ok |-> r.ok, obj |-> Put(cur, key, r.obj)]

\* Mutant: the new record replaces the log.
RecordTransformationReplacesLog(doc, source_field, target_field, value, t) ==
    LET d1 == IF Has(doc, "metadata") THEN doc
              ELSE Put(doc, "metadata", EmptyDict)
        transformation ==
            Dict(<<"timestamp", "source_field", "target_field", "value",
                   "promoted_by">>,
                 [timestamp |-> Num(t),
                  source_field |-> Path(source_field),
                  target_field |-> Path(target_field),
                  value |-> value,
                  promoted_by |-> Str("manual_script")])
    IN  Put(d1, "metadata",
            Put(d1.v["metadata"], "transformations",
                List(<<transformation>>)))

\* db.py:125-142
record_transformation(doc, source_field, target_field, value, t) ==
    LET d1 == IF Has(doc, "metadata") THEN doc
              ELSE Put(doc, "metadata", EmptyDict)
        m1 == d1.v["metadata"]
        m2 == IF Has(m1, "transformations") THEN m1
              ELSE Put(m1, "transformations", List(<<>>))
        transformation ==
            Dict(<<"timestamp", "source_field", "target_field", "value",
                   "promoted_by">>,
                 [timestamp |-> Num(t),
                  source_field |-> Path(source_field),
                  target_field |-> Path(target_field),
                  value |-> value,
                  promoted_by |-> Str("manual_script")])
        m3 == Put(m2, "transformations",
                  List(Append(m2.v["transformations"].v, transformation)))
    IN  Put(d1, "metadata", m3)

(***************************************************************************)
(* db.update_canonical                                                     *)
(***************************************************************************)
DefaultPriority == <<"unoosa", "celestrak", "spacetrack", "kaggle">>

canonical_fields ==
    <<"name", "object_name", "country_of_origin", "international_designator",
      "registration_number", "norad_cat_id", "date_of_launch", "function",
      "status", "registration_document", "un_registered", "gso_location",
      "date_of_decay_or_change", "secretariat_remarks", "external_website",
      "launch_vehicle", "place_of_launch", "object_type", "rcs",
      "orbital_band", "congestion_risk">>

orbital_fields ==
    <<"apogee_km", "perigee_km", "inclination_degrees", "period_minutes">>

tle_fields == <<"tle_line1", "tle_line2">>

tle_key(field) == IF field = "tle_line1" THEN "line1" ELSE "line2"

\* db.py:209: doc["metadata"].get("source_priority", default)
ConfiguredPriority(doc) ==
    IF Has(doc.v["metadata"], "source_priority")
    THEN doc.v["metadata"].v["source_priority"].v
    ELSE DefaultPriority

\* Mutant: the sources are ranked in the order they arrived.
EffectivePriorityByArrival(doc) == Keys(doc.v["sources"])

\* Mutant: present sources missing from the configured list are dropped.
EffectivePriorityListedOnly(doc) ==
    SelectSeq(ConfiguredPriority(doc), LAMBDA s : Has(doc.v["sources"], s))

\* db.py:212
EffectivePriority(doc) ==
    LET sources == doc.v["sources"]
        prio == ConfiguredPriority(doc)
    IN  SelectSeq(prio, LAMBDA s : Has(sources, s))
        \o SelectSeq(Keys(sources), LAMBDA s : ~InSeq(s, prio))

\* Mutant: the empty string counts as a value.
ScalarPresentNoneOnly(value) == value # PyNone

\* db.py:229: the test a scalar value must pass to be taken
ScalarPresent(value) == value # PyNone /\ value # Str("")

\* db.py:239, db.py:249: the test an orbit or TLE value must pass
NestedPresent(value) == value # PyNone

\* The inner loop over source_priority with its break: the first value that
\* passes the test, or None when the loop ends without a hit.
RECURSIVE ScanScalar(_, _, _)
ScanScalar(sources, prio, field) ==
    IF prio = <<>> THEN PyNone
    ELSE IF Has(sources, Head(prio))
            /\ ScalarPresent(Get(sources.v[Head(prio)], field))
         THEN Get(sources.v[Head(prio)], field)
         ELSE ScanScalar(sources, Tail(prio), field)

\* Mutant: the scan stops at the first source, whether it has the field or not.
RECURSIVE ScanNestedFirstSource(_, _, _)
ScanNestedFirstSource(sources, prio, field) ==
    IF prio = <<>> THEN PyNone
    ELSE IF Has(sources, Head(prio))
         THEN Get(sources.v[Head(prio)], field)
         ELSE ScanNestedFirstSource(sources, Tail(prio), field)

RECURSIVE ScanNested(_, _, _)
ScanNested(sources, prio, field) ==
    IF prio = <<>> THEN PyNone
    ELSE IF Has(sources, Head(prio))
            /\ NestedPresent(Get(sources.v[Head(prio)], field))
         THEN Get(sources.v[Head(prio)], field)
         ELSE ScanNested(sources, Tail(prio), field)

\* db.py:225-231: the loop over canonical_fields
RECURSIVE ScalarLoop(_, _, _, _)
ScalarLoop(canonical, sources, prio, fields) ==
    IF fields = <<>> THEN canonical
    ELSE LET value == ScanScalar(sources, prio, Head(fields))
         IN  ScalarLoop(IF value # PyNone
                        THEN Put(canonical, Head(fields), value)
                        ELSE canonical,
                        sources, prio, Tail(fields))

\* db.py:233-241
RECURSIVE OrbitLoop(_, _, _, _)
OrbitLoop(orbit, sources, prio, fields) ==
    IF fields = <<>> THEN orbit
    ELSE LET value == ScanNested(sources, prio, Head(fields))
         IN  OrbitLoop(IF value # PyNone
                       THEN Put(orbit, Head(fields), value)
                       ELSE orbit,
                       sources, prio, Tail(fields))

\* db.py:243-252
RECURSIVE TleLoop(_, _, _, _)
TleLoop(tle, sources, prio, fields) ==
    IF fields = <<>> THEN tle
    ELSE LET value == ScanNested(sources, prio, Head(fields))
         IN  TleLoop(IF value # PyNone
                     THEN Put(tle, tle_key(Head(fields)), value)
                     ELSE tle,
                     sources, prio, Tail(fields))

\* Mutant: the order used is appended to the list recorded by the last run.
RecordedPriorityAccumulated(doc, source_priority) ==
    List((IF Has(doc.v["canonical"], "source_priority")
          THEN doc.v["canonical"].v["source_priority"].v
          ELSE <<>>) \o source_priority)

\* db.py:254-255: what is recorded as canonical.source_priority
RecordedPriority(doc, source_priority) == List(source_priority)

update_canonical(doc, t) ==
    LET sources == doc.v["sources"]
        source_priority == EffectivePriority(doc)
        c1 == ScalarLoop(EmptyDict, sources, source_priority, canonical_fields)
        c2 == Put(c1, "orbit",
                  OrbitLoop(EmptyDict, sources, source_priority, orbital_fields))
        c3 == Put(c2, "tle",
                  TleLoop(EmptyDict, sources, source_priority, tle_fields))
        c4 == Put(c3, "updated_at", Num(t))
        c5 == Put(c4, "source_priority", RecordedPriority(doc, source_priority))
    IN  Put(doc, "canonical", c5)

(***************************************************************************)
(* Inputs: identifiers, source names and source records the importers      *)
(* hand to create_satellite_document.  Names carry no surrounding          *)
(* whitespace (the importers strip them).                                  *)
(***************************************************************************)
RecFull ==
    Dict(<<"name", "status", "apogee_km", "norad_cat_id">>,
         [name |-> Str("ISS"), status |-> Str("Operational"),
          apogee_km |-> Str("420"), norad_cat_id |-> Str("25544")])

RecSparse ==
    Dict(<<"name", "status", "inclination_degrees", "tle_line1",
           "orbital_band">>,
         [name |-> Str("ISS"), status |-> Str(""),
          inclination_degrees |-> Str("51.6"), tle_line1 |-> Str(""),
          orbital_band |-> Str("LEO")])

RecOther ==
    Dict(<<"name", "status", "apogee_km", "inclination_degrees",
           "tle_line1", "tle_line2">>,
         [name |-> Str("ZARYA"), status |-> Str("Decayed"),
          apogee_km |-> Str(""), inclination_degrees |-> Str("51.7"),
          tle_line1 |-> Str("1 25544U"), tle_line2 |-> Str("2 25544")])

RecNulls ==
    Dict(<<"name", "status", "apogee_km", "tle_line1">>,
         [name |-> Str(""), status |-> PyNone,
          apogee_km |-> PyNone, tle_line1 |-> PyNone])

\* The records the importers feed to create_satellite_document:
\* identifier, source, data
UpsertInputs ==
    { [id |-> "1998-067A", source |-> "unoosa", data |-> RecFull],
      [id |-> "1998-067A", source |-> "unoosa", data |-> RecSparse],
      [id |-> "1998-067A", source |-> "celestrak", data |-> RecOther],
      [id |-> "norad-25544", source |-> "kaggle_1", data |-> RecSparse] }

CanonRecords == {RecFull, RecSparse, RecOther, RecNulls}

CanonSources == {"unoosa", "celestrak", "kaggle", "kaggle_1"}

CanonPriorities == {DefaultPriority, <<"kaggle_1", "unoosa">>}

\* What fetch_tle_from_space_track returns on success
TleData ==
    Dict(<<"tle_line1", "tle_line2">>,
         [tle_line1 |-> Str("1 25544U"), tle_line2 |-> Str("2 25544")])

\* promote_attributes.py command lines: source_field, target_field
PromoPairs ==
    { [sf |-> <<"celestrak", "status">>, tf |-> <<"canonical", "status">>],
      [sf |-> <<"sources", "unoosa", "name">>,
       tf |-> <<"sources", "manual", "name">>],
      [sf |-> <<"sources", "kaggle_1", "orbital_band">>,
       tf |-> <<"canonical", "name", "alias">>] }

PromoLimit == 5

(***************************************************************************)
(* The satellites collection                                               *)
(***************************************************************************)
DocIds == 1..MaxDocs

Live(st) == {i \in DOMAIN st : st[i] # PyNone}

IdentifierOf(doc) == doc.v["identifier"].v

Matching(st, identifier) ==
    {i \in Live(st) : IdentifierOf(st[i]) = identifier}

\* collection.find_one({"identifier": identifier})
FindByIdentifier(st, identifier) ==
    IF Matching(st, identifier) = {} THEN PyNone
    ELSE st[CHOOSE i \in Matching(st, identifier) :
                \A j \in Matching(st, identifier) : i <= j]

\* Mutant: the identifier index is not unique.
UniqueIndexOff(st, identifier, i) == TRUE

\* db.py:27 create_index("identifier", unique=True): a write of a document
\* with this identifier into slot i is accepted only when no other document
\* holds the identifier.
UniqueIndexAllows(st, identifier, i) ==
    \A j \in Live(st) : j # i => IdentifierOf(st[j]) # identifier

\* collection.insert_one(doc): the new store, or the old one when the write
\* raises DuplicateKeyError.
InsertOk(st, doc, id) ==
    id \in DOMAIN st /\ UniqueIndexAllows(st, IdentifierOf(doc), id)

insert_one(st, doc, id) ==
    IF InsertOk(st, doc, id)
    THEN [st EXCEPT ![id] = Put(doc, "_id", Num(id))]
    ELSE st

\* collection.replace_one(filter, doc) on the matched slot i: the matched
\* document is replaced when the replacement keeps its _id and the unique
\* index accepts it.
ReplaceOk(st, i, doc) ==
    /\ i \in Live(st)
    /\ Get(doc, "_id") = Num(i)
    /\ UniqueIndexAllows(st, IdentifierOf(doc), i)

replace_at(st, i, doc) ==
    IF ReplaceOk(st, i, doc) THEN [st EXCEPT ![i] = doc] ELSE st

SlotOfIdentifier(st, identifier) ==
    IF Matching(st, identifier) = {} THEN 0
    ELSE CHOOSE i \in Matching(st, identifier) :
             \A j \in Matching(st, identifier) : i <= j

replace_one_by_identifier(st, identifier, doc) ==
    replace_at(st, SlotOfIdentifier(st, identifier), doc)

delete_one_by_identifier(st, identifier) ==
    IF SlotOfIdentifier(st, identifier) = 0 THEN st
    ELSE [st EXCEPT ![SlotOfIdentifier(st, identifier)] = PyNone]

\* Documents of the store in natural (insertion) order
RECURSIVE DocsFrom(_, _)
DocsFrom(st, i) ==
    IF i > Len(st) THEN <<>>
    ELSE IF i \in DOMAIN st /\ st[i] # PyNone
         THEN <<st[i]>> \o DocsFrom(st, i + 1)
         ELSE DocsFrom(st, i + 1)

FindAll(st, Test(_)) == SelectSeq(DocsFrom(st, 1), Test)

SubSeqTo(q, n) == IF Len(q) <= n THEN q ELSE SubSeq(q, 1, n)

RemoveAt(q, i) == SubSeq(q, 1, i - 1) \o SubSeq(q, i + 1, Len(q))

(***************************************************************************)
(* db.create_satellite_document, split at the store accesses               *)
(***************************************************************************)
WithSource(doc, source, record) ==
    Put(doc, "sources", Put(doc.v["sources"], source, record))

WithMeta(doc, key, val) ==
    Put(doc, "metadata", Put(doc.v["metadata"], key, val))

\* Mutant: canonical fields the sources do not supply are kept.
UpsertExistingKeepsCanonical(existing, source, data, t) ==
    LET d1 == WithSource(existing, source, Put(data, "updated_at", Num(t)))
        d2 == WithMeta(d1, "sources_available", List(Keys(d1.v["sources"])))
        d3 == WithMeta(d2, "last_updated_at", Num(t))
        d4 == update_canonical(d3, t)
        old == existing.v["canonical"]
        new == d4.v["canonical"]
    IN  Put(d4, "canonical",
            Dict(new.k \o SelectSeq(old.k, LAMBDA k : ~Has(new, k)),
                 new.v @@ old.v))

\* Mutant: the new record is merged field by field into the previous one.
UpsertExistingFieldMerge(existing, source, data, t) ==
    LET old == IF Has(existing.v["sources"], source)
               THEN existing.v["sources"].v[source] ELSE EmptyDict
        merged == Dict(old.k \o SelectSeq(data.k, LAMBDA k : ~Has(old, k)),
                       data.v @@ old.v)
        d1 == WithSource(existing, source, Put(merged, "updated_at", Num(t)))
        d2 == WithMeta(d1, "sources_available", List(Keys(d1.v["sources"])))
        d3 == WithMeta(d2, "last_updated_at", Num(t))
    IN  update_canonical(d3, t)

\* db.py:166-173: the in-memory update of the document read by find_one
UpsertExisting(existing, source, data, t) ==
    LET d1 == WithSource(existing, source, Put(data, "updated_at", Num(t)))
        d2 == WithMeta(d1, "sources_available", List(Keys(d1.v["sources"])))
        d3 == WithMeta(d2, "last_updated_at", Num(t))
    IN  update_canonical(d3, t)

\* db.py:181-198: the new envelope; identifier is a Python string value
EnvelopeOf(identifier, source, data, t) ==
    update_canonical(
        Dict(<<"identifier", "canonical", "sources", "metadata">>,
             [identifier |-> identifier,
              canonical |-> EmptyDict,
              sources |-> Dict(<<source>>,
                               source :> Put(data, "updated_at", Num(t))),
              metadata |->
                  Dict(<<"created_at", "last_updated_at",
                         "sources_available", "source_priority">>,
                       [created_at |-> Num(t),
                        last_updated_at |-> Num(t),
                        sources_available |-> List(<<source>>),
                        source_priority |-> List(DefaultPriority)])]),
        t)

NewEnvelope(identifier, source, data, t) ==
    EnvelopeOf(Str(identifier), source, data, t)

\* One writer per importer program (import_to_mongodb.py, import_celestrak_tle.py,
\* import_kaggle_1.py), named by the source it imports; the administrative
\* tools (promoter, merge, Space-Track import) run one at a time.
Writers == {inp.source : inp \in UpsertInputs}

FeedIdentifiers(w) == {inp.id : inp \in {x \in UpsertInputs : x.source = w}}
Admin == "admin"
Procs == Writers \cup {Admin}

IdleLoc ==
    [id |-> "", existing |-> PyNone, docs |-> <<>>,
     sf |-> <<>>, tf |-> <<>>]

NoWrite ==
    [op |-> "none", proc |-> "", id |-> "", src |-> "", data |-> PyNone,
     before |-> PyNone, snap |-> PyNone, after |-> PyNone, ok |-> FALSE]

\* db.py:163: existing = collection.find_one({"identifier": identifier})
UpsertFind(w) ==
    /\ pc[w] = "idle"
    /\ now <= MaxTime
    /\ \E identifier \in FeedIdentifiers(w) :
         loc' = [loc EXCEPT ![w] = [IdleLoc EXCEPT
                                      !.id = identifier,
                                      !.existing =
                                          FindByIdentifier(store, identifier)]]
    /\ pc' = [pc EXCEPT ![w] = "found"]
    /\ UNCHANGED <<store, nextId, now, lastWrite, cdoc, cprev, cruns>>

\* Mutant: the update is applied to the stored document at write time.
UpsertReplaceOnStored(w, source, data) ==
    LET identifier == loc[w].id
        current == FindByIdentifier(store, identifier)
        existing == UpsertExisting(current, source, data, now)
        i == SlotOfIdentifier(store, identifier)
    IN  /\ loc[w].existing # PyNone
        /\ current # PyNone
        /\ store' = replace_one_by_identifier(store, identifier, existing)
        /\ lastWrite' = [op |-> "upsert_replace", proc |-> w,
                         id |-> identifier, src |-> source, data |-> data,
                         before |-> current,
                         snap |-> loc[w].existing, after |-> existing,
                         ok |-> ReplaceOk(store, i, existing)]
        /\ UNCHANGED nextId

\* db.py:165-179: the document read earlier is updated in memory and written
\* back whole.
UpsertReplace(w, source, data) ==
    LET identifier == loc[w].id
        existing == UpsertExisting(loc[w].existing, source, data, now)
        i == SlotOfIdentifier(store, identifier)
    IN  /\ loc[w].existing # PyNone
        /\ store' = replace_one_by_identifier(store, identifier, existing)
        /\ lastWrite' = [op |-> "upsert_replace", proc |-> w,
                         id |-> identifier, src |-> source, data |-> data,
                         before |-> FindByIdentifier(store, identifier),
                         snap |-> loc[w].existing, after |-> existing,
                         ok |-> (i = 0 \/ ReplaceOk(store, i, existing))]
        /\ UNCHANGED nextId

\* db.py:180-201: no document was found, a new envelope is inserted.
UpsertInsert(w, source, data) ==
    LET identifier == loc[w].id
        doc == NewEnvelope(identifier, source, data, now)
    IN  /\ loc[w].existing = PyNone
        /\ nextId <= MaxDocs
        /\ store' = insert_one(store, doc, nextId)
        /\ nextId' = IF InsertOk(store, doc, nextId) THEN nextId + 1
                     ELSE nextId
        /\ lastWrite' = [op |-> "upsert_insert", proc |-> w,
                         id |-> identifier, src |-> source, data |-> data,
                         before |-> FindByIdentifier(store, identifier),
                         snap |-> PyNone,
                         after |-> Put(doc, "_id", Num(nextId)),
                         ok |-> InsertOk(store, doc, nextId)]

\* The source name and the record are arguments of the call; nothing reads
\* them before the write, so they are drawn here.
UpsertWrite(w) ==
    /\ pc[w] = "found"
    /\ \E inp \in UpsertInputs :
         /\ inp.id = loc[w].id
         /\ inp.source = w
         /\ \/ UpsertReplace(w, inp.source, inp.data)
            \/ UpsertInsert(w, inp.source, inp.data)
    /\ now' = now + 1
    /\ pc' = [pc EXCEPT ![w] = "idle"]
    /\ loc' = [loc EXCEPT ![w] = IdleLoc]
    /\ UNCHANGED <<cdoc, cprev, cruns>>

(***************************************************************************)
(* promote_attributes.py                                                   *)
(***************************************************************************)
KnownSourcePrefixes == {"kaggle", "unoosa", "celestrak", "spacetrack"}

\* promote_attributes.py:149-166, on the tokens of the dotted path
normalize_field_path(field_path) ==
    IF Len(field_path) > 1 /\ Head(field_path) \in {"sources", "canonical"}
    THEN field_path
    ELSE IF Len(field_path) > 1 /\ Head(field_path) \in KnownSourcePrefixes
    THEN <<"sources">> \o field_path
    ELSE field_path

\* promote_attributes.py:301: {source_field: {"$exists": True, "$ne": None}}
QueryMatches(doc, source_field) == get_nested_field(doc, source_field) # PyNone

\* db.py:125-142: record_transformation raises TypeError or AttributeError
\* when metadata is no dict or metadata.transformations is no list
RecordRaises(doc) ==
    /\ Has(doc, "metadata")
    /\ \/ ~IsDict(doc.v["metadata"])
       \/ /\ Has(doc.v["metadata"], "transformations")
          /\ doc.v["metadata"].v["transformations"].t # "list"

\* Mutant: a source value of None is promoted like any other.
PromoteNoneAllowed(doc, source_field, target_field, t) ==
    LET value == get_nested_field(doc, source_field)
        r == set_nested_field(doc, target_field, value)
    IN  IF ~r.ok THEN [success |-> FALSE, doc |-> r.obj]
        ELSE IF RecordRaises(r.obj) THEN [success |-> FALSE, doc |-> r.obj]
        ELSE [success |-> TRUE,
              doc |-> record_transformation(r.obj, source_field,
                                            target_field, value, t)]

\* Mutant: the record holds the value the target had before the promotion.
PromoteRecordsOldTarget(doc, source_field, target_field, t) ==
    LET value == get_nested_field(doc, source_field)
        r == set_nested_field(doc, target_field, value)
    IN  IF value = PyNone THEN [success |-> FALSE, doc |-> doc]
        ELSE IF ~r.ok THEN [success |-> FALSE, doc |-> r.obj]
        ELSE IF RecordRaises(r.obj) THEN [success |-> FALSE, doc |-> r.obj]
        ELSE [success |-> TRUE,
              doc |-> record_transformation(
                          r.obj, source_field, target_field,
                          get_nested_field(doc, target_field), t)]

\* promote_attributes.py:361-392: the flag and the document as left in memory
promote_document(doc, source_field, target_field, t) ==
    LET value == get_nested_field(doc, source_field)
        r == set_nested_field(doc, target_field, value)
    IN  IF value = PyNone THEN [success |-> FALSE, doc |-> doc]
        ELSE IF ~r.ok THEN [success |-> FALSE, doc |-> r.obj]
        ELSE IF RecordRaises(r.obj) THEN [success |-> FALSE, doc |-> r.obj]
        ELSE [success |-> TRUE,
              doc |-> record_transformation(r.obj, source_field,
                                            target_field, value, t)]

DocSlot(doc) == IF Has(doc, "_id") THEN doc.v["_id"].v ELSE 0

\* promote_attributes.py:407-425: replace_one({"_id": ...}) and
\* result.modified_count == 1
UpdateOk(st, doc) ==
    /\ ReplaceOk(st, DocSlot(doc), doc)
    /\ st[DocSlot(doc)] # doc

update_document_in_db(st, doc) == replace_at(st, DocSlot(doc), doc)

\* main(): promote_attributes.py:599-630, the run reads its batch
PromoteQuery ==
    /\ pc[Admin] = "idle"
    /\ now <= MaxTime
    /\ \E pair \in PromoPairs :
         LET source_field == normalize_field_path(pair.sf)
             target_field == normalize_field_path(pair.tf)
             documents ==
                 SubSeqTo(FindAll(store,
                                  LAMBDA d : QueryMatches(d, source_field)),
                          PromoLimit)
         IN  /\ documents # <<>>
             /\ loc' = [loc EXCEPT ![Admin] =
                          [IdleLoc EXCEPT !.docs = documents,
                                          !.sf = source_field,
                                          !.tf = target_field]]
    /\ pc' = [pc EXCEPT ![Admin] = "promoting"]
    /\ UNCHANGED <<store, nextId, now, lastWrite, cdoc, cprev, cruns>>

\* process_documents: one iteration of the loop, promote_attributes.py:544-572
PromoteStep ==
    /\ pc[Admin] = "promoting"
    /\ LET doc == Head(loc[Admin].docs)
           result == promote_document(doc, loc[Admin].sf, loc[Admin].tf, now)
           rest == Tail(loc[Admin].docs)
           writes == result.success
       IN  /\ writes => now <= MaxTime
           /\ store' = IF writes THEN update_document_in_db(store, result.doc)
                       ELSE store
           /\ lastWrite' =
                  IF writes
                  THEN [op |-> "promote", proc |-> Admin,
                        id |-> IdentifierOf(doc), src |-> "",
                        data |-> PyNone,
                        before |-> IF DocSlot(doc) \in Live(store)
                                   THEN store[DocSlot(doc)] ELSE PyNone,
                        snap |-> doc, after |-> result.doc,
                        ok |-> UpdateOk(store, result.doc)]
                  ELSE lastWrite
           /\ now' = IF writes THEN now + 1 ELSE now
           /\ loc' = [loc EXCEPT ![Admin] =
                        IF rest = <<>> THEN IdleLoc
                        ELSE [loc[Admin] EXCEPT !.docs = rest]]
           /\ pc' = [pc EXCEPT ![Admin] =
                        IF rest = <<>> THEN "idle" ELSE "promoting"]
    /\ UNCHANGED <<nextId, cdoc, cprev, cruns>>

(***************************************************************************)
(* merge_kaggle_sources.py                                                 *)
(***************************************************************************)
HasKaggle1(doc) == Has(doc.v["sources"], "kaggle_1")

\* merge_kaggle_sources.py:21
MergeLoad ==
    /\ pc[Admin] = "idle"
    /\ now <= MaxTime
    /\ FindAll(store, HasKaggle1) # <<>>
    /\ loc' = [loc EXCEPT ![Admin] =
                 [IdleLoc EXCEPT !.docs = FindAll(store, HasKaggle1)]]
    /\ pc' = [pc EXCEPT ![Admin] = "merging"]
    /\ UNCHANGED <<store, nextId, now, lastWrite, cdoc, cprev, cruns>>

\* merge_kaggle_sources.py:37-42: the documents the $or query matches
NameMatches(st, kaggle_name) ==
    {i \in Live(st) :
        \/ get_nested_field(st[i], <<"sources", "unoosa", "name">>)
             = Str(kaggle_name)
        \/ get_nested_field(st[i], <<"sources", "celestrak", "name">>)
             = Str(kaggle_name)}

\* merge_kaggle_sources.py:45-50: the in-memory update of the matched document
MergeInto(existing, kaggle_doc) ==
    LET d1 == WithSource(existing, "kaggle_1",
                         kaggle_doc.v["sources"].v["kaggle_1"])
        d2 == WithMeta(d1, "sources_available", List(Keys(d1.v["sources"])))
    IN  WithMeta(d2, "last_updated_at",
                 Get(kaggle_doc.v["metadata"], "last_updated_at"))

\* merge_kaggle_sources.py:28-63: one iteration of the loop
MergeStep ==
    /\ pc[Admin] = "merging"
    /\ LET kaggle_doc == Head(loc[Admin].docs)
           rest == Tail(loc[Admin].docs)
           name == Get(kaggle_doc.v["sources"].v["kaggle_1"], "name")
           kaggle_name == IF name = PyNone THEN "" ELSE name.v
           hits == IF kaggle_name = "" THEN {}
                   ELSE NameMatches(store, kaggle_name)
       IN  /\ \/ /\ hits = {}
                 /\ UNCHANGED <<store, lastWrite, now>>
              \/ /\ now <= MaxTime
                 /\ \E i \in hits :
                      LET identifier == IdentifierOf(store[i])
                          existing == MergeInto(store[i], kaggle_doc)
                          st1 == replace_one_by_identifier(store, identifier,
                                                            existing)
                      IN  /\ store' = delete_one_by_identifier(
                                          st1, IdentifierOf(kaggle_doc))
                          /\ lastWrite' =
                                 [op |-> "merge", proc |-> Admin,
                                  id |-> identifier, src |-> "kaggle_1",
                                  data |-> kaggle_doc,
                                  before |-> store[i], snap |-> store[i],
                                  after |-> existing,
                                  ok |-> ReplaceOk(store, i, existing)]
                 /\ now' = now + 1
           /\ loc' = [loc EXCEPT ![Admin] =
                        IF rest = <<>> THEN IdleLoc
                        ELSE [loc[Admin] EXCEPT !.docs = rest]]
           /\ pc' = [pc EXCEPT ![Admin] =
                        IF rest = <<>> THEN "idle" ELSE "merging"]
    /\ UNCHANGED <<nextId, cdoc, cprev, cruns>>

(***************************************************************************)
(* import_spacetrack_tle.py                                                *)
(***************************************************************************)
HasNorad(doc) == get_nested_field(doc, <<"canonical", "norad_cat_id">>) # PyNone

\* import_spacetrack_tle.py:104
StLoad ==
    /\ pc[Admin] = "idle"
    /\ now <= MaxTime
    /\ FindAll(store, HasNorad) # <<>>
    /\ loc' = [loc EXCEPT ![Admin] =
                 [IdleLoc EXCEPT !.docs = FindAll(store, HasNorad)]]
    /\ pc' = [pc EXCEPT ![Admin] = "tracking"]
    /\ UNCHANGED <<store, nextId, now, lastWrite, cdoc, cprev, cruns>>

\* import_spacetrack_tle.py:126-132: the in-memory update of the snapshot
StUpdate(sat, tle_data, t) ==
    LET d1 == WithSource(sat, "spacetrack", Put(tle_data, "updated_at", Num(t)))
        d2 == WithMeta(d1, "sources_available", List(Keys(d1.v["sources"])))
        d3 == WithMeta(d2, "last_updated_at", Num(t))
    IN  update_canonical(d3, t)

\* import_spacetrack_tle.py:116-139: the coordinating thread handles the
\* next completed future; the fetch either returned a TLE or None.
StStep ==
    /\ pc[Admin] = "tracking"
    /\ \E n \in 1..Len(loc[Admin].docs), tle_data \in {TleData, PyNone} :
         LET sat == loc[Admin].docs[n]
             rest == RemoveAt(loc[Admin].docs, n)
             identifier == IdentifierOf(sat)
             updated == StUpdate(sat, tle_data, now)
             i == SlotOfIdentifier(store, identifier)
         IN  /\ \/ /\ tle_data = PyNone
                   /\ UNCHANGED <<store, lastWrite, now>>
                \/ /\ tle_data # PyNone
                   /\ now <= MaxTime
                   /\ store' = replace_one_by_identifier(store, identifier,
                                                         updated)
                   /\ lastWrite' =
                          [op |-> "spacetrack", proc |-> Admin,
                           id |-> identifier, src |-> "spacetrack",
                           data |-> tle_data,
                           before |-> FindByIdentifier(store, identifier),
                           snap |-> sat, after |-> updated,
                           ok |-> (i = 0 \/ ReplaceOk(store, i, updated))]
                   /\ now' = now + 1
             /\ loc' = [loc EXCEPT ![Admin] =
                          IF rest = <<>> THEN IdleLoc
                          ELSE [loc[Admin] EXCEPT !.docs = rest]]
             /\ pc' = [pc EXCEPT ![Admin] =
                          IF rest = <<>> THEN "idle" ELSE "tracking"]
    /\ UNCHANGED <<nextId, cdoc, cprev, cruns>>

(***************************************************************************)
(* The store specification                                                 *)
(***************************************************************************)
Init ==
    /\ store = [i \in DocIds |-> PyNone]
    /\ nextId = 1
    /\ now = 1
    /\ pc = [p \in Procs |-> "idle"]
    /\ loc = [p \in Procs |-> IdleLoc]
    /\ lastWrite = NoWrite
    /\ cdoc = PyNone
    /\ cprev = PyNone
    /\ cruns = 0

Next ==
    \/ \E w \in Writers : UpsertFind(w)
    \/ \E w \in Writers : UpsertWrite(w)
    \/ PromoteQuery
    \/ PromoteStep
    \/ MergeLoad
    \/ MergeStep
    \/ StLoad
    \/ StStep

Spec == Init /\ [][Next]_vars

(***************************************************************************)
(* The canonicalizer on its own: update_canonical applied repeatedly to an *)
(* envelope whose sources map and configured priority are drawn from       *)
(* bounded sets.                                                           *)
(***************************************************************************)
Injective(q) == \A i, j \in DOMAIN q : q[i] = q[j] => i = j

SourceOrders ==
    UNION {{q \in [1..n -> CanonSources] : Injective(q)} : n \in 1..MaxSrcs}

RECURSIVE BuildSources(_, _, _)
BuildSources(order, recs, n) ==
    IF n = 0 THEN EmptyDict
    ELSE Put(BuildSources(order, recs, n - 1), order[n],
             Put(recs[n], "updated_at", Num(0)))

CanonEnvelope(order, recs, prio) ==
    Dict(<<"identifier", "canonical", "sources", "metadata">>,
         [identifier |-> Str("1998-067A"),
          canonical |-> EmptyDict,
          sources |-> BuildSources(order, recs, Len(order)),
          metadata |->
              Dict(<<"created_at", "last_updated_at", "sources_available",
                     "source_priority">>,
                   [created_at |-> Num(0),
                    last_updated_at |-> Num(0),
                    sources_available |-> List(order),
                    source_priority |-> List(prio)])])

InitCanon ==
    /\ store = [i \in DocIds |-> PyNone]
    /\ nextId = 1
    /\ now = 1
    /\ pc = [p \in Procs |-> "idle"]
    /\ loc = [p \in Procs |-> IdleLoc]
    /\ lastWrite = NoWrite
    /\ \E order \in SourceOrders, prio \in CanonPriorities :
         \E recs \in [1..Len(order) -> CanonRecords] :
            cdoc = CanonEnvelope(order, recs, prio)
    /\ cprev = PyNone
    /\ cruns = 0

Canonicalize ==
    /\ cruns < MaxRuns
    /\ cprev' = cdoc.v["canonical"]
    /\ cdoc' = update_canonical(cdoc, now)
    /\ cruns' = cruns + 1
    /\ now' = now + 1
    /\ UNCHANGED <<store, nextId, pc, loc, lastWrite>>

NextCanon == Canonicalize

SpecCanon == InitCanon /\ [][NextCanon]_vars

(***************************************************************************)
(* import_celestrak_tle.py: designators are strings whose characters the   *)
(* code inspects; such a string is [t |-> "text", v |-> chars], chars the  *)
(* sequence of its characters.                                             *)
(***************************************************************************)
Text(chars) == [t |-> "text", v |-> chars]

Digits == <<"0", "1", "2", "3", "4", "5", "6", "7", "8", "9">>

Letters ==
    {"A", "B", "C", "D", "E", "F", "G", "H", "I", "J", "K", "L", "M",
     "N", "O", "P", "Q", "R", "S", "T", "U", "V", "W", "X", "Y", "Z"}

IsDigit(c) == \E i \in 1..Len(Digits) : Digits[i] = c

DigitVal(c) == (CHOOSE i \in 1..Len(Digits) : Digits[i] = c) - 1

\* str.isalpha() on one character
IsAlpha(c) == c \in Letters

\* int(s) succeeds on a non-empty run of decimal digits
IntParses(q) == q # <<>> /\ \A i \in 1..Len(q) : IsDigit(q[i])

RECURSIVE IntOf(_)
IntOf(q) ==
    IF q = <<>> THEN 0
    ELSE 10 * IntOf(SubSeq(q, 1, Len(q) - 1)) + DigitVal(q[Len(q)])

\* str(n) for n >= 0
RECURSIVE Decimal(_)
Decimal(n) ==
    IF n < 10 THEN <<Digits[n + 1]>>
    ELSE Decimal(n \div 10) \o <<Digits[(n % 10) + 1]>>

RECURSIVE ZeroPad(_, _)
ZeroPad(q, width) ==
    IF Len(q) >= width THEN q ELSE ZeroPad(<<"0">> \o q, width)

\* f"{n:03d}" and f"{n:0>3}"
Format03(n) == ZeroPad(Decimal(n), 3)

DashPositions(q) == {i \in 1..Len(q) : q[i] = "-"}

\* s[-n:]
LastChars(q, n) == IF Len(q) <= n THEN q ELSE SubSeq(q, Len(q) - n + 1, Len(q))

\* import_celestrak_tle.py:134-146, the branch for YYYY-NNNX
LongToShort(original_designator) ==
    LET cut == CHOOSE i \in DashPositions(original_designator) : TRUE
        year == SubSeq(original_designator, 1, cut - 1)
        rest == SubSeq(original_designator, cut + 1,
                       Len(original_designator))
        yy == LastChars(year, 2)
        alpha == IsAlpha(rest[Len(rest)])
        seq == IF alpha THEN SubSeq(rest, 1, Len(rest) - 1) ELSE rest
        piece == IF alpha THEN <<rest[Len(rest)]>> ELSE <<>>
    IN  IF Cardinality(DashPositions(original_designator)) # 1 THEN PyNone
        ELSE IF rest = <<>> THEN PyNone
        ELSE IF ~IntParses(seq) THEN PyNone
        ELSE Text(yy \o Format03(IntOf(seq)) \o piece)

\* import_celestrak_tle.py:147-161, the branch for YYNNNSSG
ShortToLong(original_designator) ==
    LET yy == SubSeq(original_designator, 1, 2)
        seq == SubSeq(original_designator, 3, 5)
        piece == SubSeq(original_designator, 6, Len(original_designator))
        year == IF IntOf(yy) > 57 THEN IntOf(yy) + 1900
                ELSE IntOf(yy) + 2000
    IN  IF Len(original_designator) < 5 THEN PyNone
        ELSE IF ~IntParses(yy) \/ ~IntParses(seq) THEN PyNone
        ELSE Text(Decimal(year) \o <<"-">> \o Format03(IntOf(seq))
                  \o piece)

\* import_celestrak_tle.py:122-163: the converted designator, or None when
\* the input has neither form or a conversion raises
match_designator_format(original_designator) ==
    IF DashPositions(original_designator) # {}
    THEN LongToShort(original_designator)
    ELSE ShortToLong(original_designator)

CanonicalDesignator(doc) ==
    get_nested_field(doc, <<"canonical", "international_designator">>)

\* db.py:268-269: find_one({"canonical.international_designator": ...}), the
\* first match in natural order; an empty argument selects no branch
find_satellite(st, international_designator) ==
    LET hits == FindAll(st, LAMBDA d : CanonicalDesignator(d)
                                         = Text(international_designator))
    IN  IF international_designator = <<>> \/ hits = <<>> THEN PyNone
        ELSE Head(hits)

\* Mutant: the converted designator is looked up first.
LookupAlternateFirst(st, intl_desig) ==
    LET alt_designator == match_designator_format(intl_desig)
        existing == IF alt_designator = PyNone THEN PyNone
                    ELSE find_satellite(st, alt_designator.v)
    IN  IF existing # PyNone THEN existing
        ELSE find_satellite(st, intl_desig)

\* import_celestrak_tle.py:199-204
LookupExisting(st, intl_desig) ==
    LET existing == find_satellite(st, intl_desig)
        alt_designator == match_designator_format(intl_desig)
    IN  IF existing # PyNone THEN existing
        ELSE IF alt_designator = PyNone THEN PyNone
        ELSE find_satellite(st, alt_designator.v)

\* db.py:145-201 run without interruption, identifier a Python string value:
\* the collection and the _id counter after the call, and whether the call
\* took the insert branch
create_satellite_document(st, nid, identifier, source, data, t) ==
    LET existing == FindByIdentifier(st, identifier.v)
        doc == EnvelopeOf(identifier, source, data, t)
    IN  IF existing # PyNone
        THEN [store |-> replace_one_by_identifier(
                            st, identifier.v,
                            UpsertExisting(existing, source, data, t)),
              nextId |-> nid, inserts |-> FALSE]
        ELSE [store |-> insert_one(st, doc, nid),
              nextId |-> IF InsertOk(st, doc, nid) THEN nid + 1 ELSE nid,
              inserts |-> TRUE]

\* Designators of the records offered by the registry and the TLE feeds
UnoosaDesignators ==
    {<<"1", "9", "9", "8", "-", "0", "6", "7", "A">>,
     <<"2", "0", "5", "7", "-", "0", "0", "1">>}

CelestrakDesignators ==
    {<<"9", "8", "0", "6", "7", "A">>,
     <<"1", "9", "9", "8", "-", "0", "6", "7", "A">>,
     <<"5", "7", "0", "0", "1">>,
     <<"9", "8", "0", "6">>,
     <<"9", "8", "A", "6", "7", "B">>}

\* import_to_mongodb.py:31-47: the data of one registry row
UnoosaRecord(intl_desig) ==
    Dict(<<"object_name", "international_designator", "status">>,
         [object_name |-> Str("ISS"),
          international_designator |-> Text(intl_desig),
          status |-> Str("Operational")])

\* import_celestrak_tle.py:189-197
CelestrakRecord(intl_desig) ==
    Dict(<<"name", "international_designator", "tle_line1", "tle_line2",
           "inclination_degrees">>,
         [name |-> Str("ZARYA"),
          international_designator |-> Text(intl_desig),
          tle_line1 |-> Str("1 25544U"),
          tle_line2 |-> Str("2 25544"),
          inclination_degrees |-> Str("51.6")])

\* The whole collection before a handler of a sequential importer ran is
\* kept in lastWrite.before, the document the handler aimed at in .snap.
SeqWrite(op, identifier, source, data, existing, r) ==
    [op |-> op, proc |-> source, id |-> identifier, src |-> source,
     data |-> data, before |-> store, snap |-> existing,
     after |-> FindByIdentifier(r.store, identifier),
     ok |-> r.store # store]

\* import_to_mongodb.py:27-60, one row
UnoosaImport ==
    /\ now <= MaxTime
    /\ \E intl_desig \in UnoosaDesignators :
         LET identifier == Text(intl_desig)
             data == UnoosaRecord(intl_desig)
             r == create_satellite_document(store, nextId, identifier,
                                            "unoosa", data, now)
         IN  /\ r.inserts => nextId <= MaxDocs
             /\ store' = r.store
             /\ nextId' = r.nextId
             /\ lastWrite' = SeqWrite("unoosa", intl_desig, "unoosa", data,
                                      FindByIdentifier(store, intl_desig), r)
    /\ now' = now + 1
    /\ UNCHANGED <<pc, loc, cdoc, cprev, cruns>>

\* import_celestrak_tle.py:186-212, one TLE record
CelestrakImport ==
    /\ now <= MaxTime
    /\ \E intl_desig \in CelestrakDesignators :
         LET celestrak_data == CelestrakRecord(intl_desig)
             existing == LookupExisting(store, intl_desig)
             identifier == IF existing # PyNone
                           THEN existing.v["identifier"]
                           ELSE Text(intl_desig)
             r == create_satellite_document(store, nextId, identifier,
                                            "celestrak", celestrak_data, now)
         IN  /\ r.inserts => nextId <= MaxDocs
             /\ store' = r.store
             /\ nextId' = r.nextId
             /\ lastWrite' = SeqWrite("celestrak", intl_desig, "celestrak",
                                      celestrak_data, existing, r)
    /\ now' = now + 1
    /\ UNCHANGED <<pc, loc, cdoc, cprev, cruns>>

NextCeles == UnoosaImport \/ CelestrakImport

SpecCeles == Init /\ [][NextCeles]_vars

(***************************************************************************)
(* The promoter run against a store that only sequential importers write:  *)
(* main() reads its batch, process_documents handles one document per      *)
(* step with its dry_run flag and its stats, and an upsert runs only       *)
(* between promoter runs.                                                  *)
(***************************************************************************)
\* promote_attributes.py command lines of the batch runs
BatchPairs ==
    PromoPairs \cup
    { [sf |-> <<"celestrak", "name">>, tf |-> <<"canonical", "display_name">>],
      [sf |-> <<"sources", "unoosa", "name">>,
       tf |-> <<"metadata", "transformations">>],
      [sf |-> <<"canonical", "name">>,
       tf |-> <<"canonical", "status", "label">>] }

\* promote_attributes.py:533-538
NewStats(documents) ==
    [total |-> Len(documents), updated |-> 0, skipped |-> 0, errors |-> 0]

\* Mutant: the dry-run flag is ignored.
WritesStoreAlways(success, dry_run) == success

\* promote_attributes.py:553-565: the iteration reaches update_document_in_db
WritesStore(success, dry_run) == success /\ ~dry_run

\* Mutant: a failed store write is counted nowhere.
CountDocumentDropsFailedWrite(stats, success, dry_run, updated) ==
    IF ~success THEN [stats EXCEPT !.errors = @ + 1]
    ELSE IF dry_run THEN [stats EXCEPT !.skipped = @ + 1]
    ELSE IF updated THEN [stats EXCEPT !.updated = @ + 1]
    ELSE stats

\* promote_attributes.py:553-572: the counter the iteration increments
CountDocument(stats, success, dry_run, updated) ==
    IF ~success THEN [stats EXCEPT !.errors = @ + 1]
    ELSE IF dry_run THEN [stats EXCEPT !.skipped = @ + 1]
    ELSE IF updated THEN [stats EXCEPT !.updated = @ + 1]
    ELSE [stats EXCEPT !.errors = @ + 1]

\* The locals of main() and process_documents: the command line, the batch
\* as queried, the documents still to process, the collection as the run
\* found it, and the stats before the last iteration
BatchLoc(args, documents, source_field, target_field, dry_run) ==
    [id |-> "", existing |-> PyNone, docs |-> documents,
     sf |-> source_field, tf |-> target_field,
     args |-> args, batch |-> documents, dry_run |-> dry_run, start |-> store,
     stats |-> NewStats(documents), prev |-> NewStats(documents)]

\* One sequential call of create_satellite_document by an importer
SeqUpsert ==
    /\ pc[Admin] = "idle"
    /\ now <= MaxTime
    /\ \E inp \in UpsertInputs :
         LET r == create_satellite_document(store, nextId, Str(inp.id),
                                            inp.source, inp.data, now)
         IN  /\ r.inserts => nextId <= MaxDocs
             /\ store' = r.store
             /\ nextId' = r.nextId
             /\ lastWrite' = SeqWrite("upsert", inp.id, inp.source, inp.data,
                                      FindByIdentifier(store, inp.id), r)
    /\ now' = now + 1
    /\ UNCHANGED <<pc, loc, cdoc, cprev, cruns>>

\* main(): promote_attributes.py:594-663 up to the call of process_documents
BatchStart ==
    /\ pc[Admin] = "idle"
    /\ \E pair \in BatchPairs, dry_run \in BOOLEAN :
         LET source_field == normalize_field_path(pair.sf)
             target_field == normalize_field_path(pair.tf)
             documents ==
                 SubSeqTo(FindAll(store,
                                  LAMBDA d : QueryMatches(d, source_field)),
                          PromoLimit)
         IN  /\ documents # <<>>
             /\ loc' = [loc EXCEPT ![Admin] =
                          BatchLoc(pair, documents, source_field,
                                   target_field, dry_run)]
    /\ pc' = [pc EXCEPT ![Admin] = "promoting"]
    /\ UNCHANGED <<store, nextId, now, lastWrite, cdoc, cprev, cruns>>

\* process_documents: one iteration, promote_attributes.py:544-572.  The
\* call of replace_one may raise (the connection is lost), which
\* update_document_in_db turns into False.
BatchStep ==
    /\ pc[Admin] = "promoting"
    /\ \E raised \in BOOLEAN :
         LET l == loc[Admin]
             doc == Head(l.docs)
             result == promote_document(doc, l.sf, l.tf, now)
             attempts == WritesStore(result.success, l.dry_run)
             updated == attempts /\ ~raised /\ UpdateOk(store, result.doc)
             rest == Tail(l.docs)
         IN  /\ raised => attempts
             /\ attempts => now <= MaxTime
             /\ store' = IF attempts /\ ~raised
                         THEN update_document_in_db(store, result.doc)
                         ELSE store
             /\ now' = IF updated THEN now + 1 ELSE now
             /\ lastWrite' =
                    [op |-> "promote", proc |-> Admin,
                     id |-> IdentifierOf(doc), src |-> "", data |-> PyNone,
                     before |-> store, snap |-> doc, after |-> result.doc,
                     ok |-> updated, success |-> result.success,
                     args |-> l.args, sf |-> l.sf, tf |-> l.tf,
                     dry_run |-> l.dry_run]
             /\ loc' = [loc EXCEPT ![Admin] =
                          [l EXCEPT !.docs = rest,
                                    !.prev = l.stats,
                                    !.stats = CountDocument(l.stats,
                                                  result.success, l.dry_run,
                                                  updated)]]
             /\ pc' = [pc EXCEPT ![Admin] =
                          IF rest = <<>> THEN "idle" ELSE "promoting"]
    /\ UNCHANGED <<nextId, cdoc, cprev, cruns>>

NextBatch == SeqUpsert \/ BatchStart \/ BatchStep

SpecBatch == Init /\ [][NextBatch]_vars

(***************************************************************************)
(* The nested-field helpers and promote_document on their own: one call on *)
(* a document and a dotted path drawn from bounded sets.  cprev is the     *)
(* document before the call, cdoc the document as the call leaves it.      *)
(***************************************************************************)
NestedKeys == {"a", "b", "c", "x"}

NestedPaths ==
    UNION {[1..n -> NestedKeys] : n \in 1..MaxPathLen}

NestedDocs ==
    { EmptyDict,
      Dict(<<"a">>, [a |-> Str("scalar")]),
      Dict(<<"a">>, [a |-> PyNone]),
      Dict(<<"a">>, [a |-> EmptyDict]),
      Dict(<<"a">>, [a |-> Dict(<<"b">>, [b |-> Num(0)])]),
      Dict(<<"a">>, [a |-> Dict(<<"b">>, [b |-> PyNone])]),
      Dict(<<"a">>, [a |-> Dict(<<"b">>,
                                [b |-> Dict(<<"c">>, [c |-> Num(1)])])]),
      Dict(<<"a", "x">>, [a |-> Dict(<<"b">>, [b |-> Str("s")]),
                          x |-> Num(10)]) }

NestedValues == {Num(1), Str("LEO"), PyNone, Dict(<<"c">>, [c |-> Num(1)])}

NestedTargets ==
    {<<"canonical", "name">>, <<"x">>, <<"a", "b">>, <<"a", "b", "c">>}

IsProperPrefix(p, q) == Len(p) < Len(q) /\ SubSeq(q, 1, Len(p)) = p

\* The call: function, path, value given or read, target, returned flag
NestedCall(op, path, value, target, ok) ==
    [op |-> op, proc |-> "", id |-> "", src |-> "", data |-> value,
     before |-> PyNone, snap |-> PyNone, after |-> PyNone, ok |-> ok,
     sf |-> path, tf |-> target]

InitNested ==
    /\ store = [i \in DocIds |-> PyNone]
    /\ nextId = 1
    /\ now = 1
    /\ pc = [p \in Procs |-> "idle"]
    /\ \E path \in NestedPaths :
         loc = [p \in Procs |-> [IdleLoc EXCEPT !.sf = path]]
    /\ lastWrite = NoWrite
    /\ cdoc \in NestedDocs
    /\ cprev = PyNone
    /\ cruns = 0

\* set_nested_field(doc, path, value)
SetField ==
    /\ cruns = 0
    /\ \E value \in NestedValues :
         LET path == loc[Admin].sf
             r == set_nested_field(cdoc, path, value)
         IN  /\ cdoc' = r.obj
             /\ lastWrite' = NestedCall("set", path, value, <<>>, r.ok)
    /\ cprev' = cdoc
    /\ cruns' = 1
    /\ UNCHANGED <<store, nextId, now, pc, loc>>

\* promote_document(doc, source_field, target_field).  A dict promoted to a
\* path below itself would contain itself; such calls are left out.
PromoteField ==
    /\ cruns = 0
    /\ \E target_field \in NestedTargets :
         LET source_field == loc[Admin].sf
             value == get_nested_field(cdoc, source_field)
             result == promote_document(cdoc, source_field, target_field,
                                        now)
         IN  /\ ~(IsDict(value) /\ IsProperPrefix(source_field, target_field))
             /\ cdoc' = result.doc
             /\ lastWrite' = NestedCall("promote", source_field, value,
                                        target_field, result.success)
    /\ cprev' = cdoc
    /\ cruns' = 1
    /\ UNCHANGED <<store, nextId, now, pc, loc>>

NextNested == SetField \/ PromoteField

SpecNested == InitNested /\ [][NextNested]_vars

(***************************************************************************)
(* promote_attributes.main() from the command line to the first read of    *)
(* the collection.  The arguments are strings of characters; one of them   *)
(* is drawn freely, the others are well-formed.                            *)
(***************************************************************************)
PathAlphabet == {"a", ".", "$", " ", "\n", "\t", "\r"}

FilterAlphabet == {"a", "=", ",", " "}

ArgStrings(alphabet) == UNION {[1..n -> alphabet] : n \in 0..MaxArgLen}

WellFormedPath == <<"a", ".", "a">>

\* argparse results: source_field, target_field, --filter (None when absent)
Arguments ==
    {[source_field |-> p, target_field |-> WellFormedPath, filter |-> PyNone] :
        p \in ArgStrings(PathAlphabet)}
    \cup
    {[source_field |-> WellFormedPath, target_field |-> p, filter |-> PyNone] :
        p \in ArgStrings(PathAlphabet)}
    \cup
    {[source_field |-> WellFormedPath, target_field |-> WellFormedPath,
      filter |-> Text(f)] : f \in ArgStrings(FilterAlphabet)}

\* The characters str.strip() removes
IsSpace(c) == c \in {" ", "\n", "\t", "\r"}

RECURSIVE StripLeft(_)
StripLeft(q) ==
    IF q # <<>> /\ IsSpace(Head(q)) THEN StripLeft(Tail(q)) ELSE q

RECURSIVE StripRight(_)
StripRight(q) ==
    IF q # <<>> /\ IsSpace(q[Len(q)])
    THEN StripRight(SubSeq(q, 1, Len(q) - 1))
    ELSE q

Strip(q) == StripRight(StripLeft(q))

\* c in s
Contains(q, c) == \E i \in 1..Len(q) : q[i] = c

\* s.split(c)
RECURSIVE SplitOn(_, _)
SplitOn(q, c) ==
    IF ~Contains(q, c) THEN <<q>>
    ELSE LET cut == CHOOSE i \in 1..Len(q) :
                        q[i] = c /\ \A j \in 1..(i - 1) : q[j] # c
         IN  <<SubSeq(q, 1, cut - 1)>>
                 \o SplitOn(SubSeq(q, cut + 1, Len(q)), c)

\* promote_attributes.py:229: the characters a field path must not contain
invalid_chars == {"$", " ", "\n", "\t"}

\* promote_attributes.py:215-245
validate_field_path(field_path) ==
    IF field_path = <<>> \/ Strip(field_path) = <<>> THEN FALSE
    ELSE IF \E char \in invalid_chars : Contains(field_path, char) THEN FALSE
    ELSE IF \E i \in 1..(Len(field_path) - 1) :
                field_path[i] = "." /\ field_path[i + 1] = "."
    THEN FALSE
    ELSE IF Head(field_path) = "." \/ field_path[Len(field_path)] = "."
    THEN FALSE
    ELSE TRUE

\* promote_attributes.py:189-194: parse_filter raises ValueError
ParseFilterRaises(filter_str) ==
    LET filters == SplitOn(filter_str, ",")
    IN  \E i \in 1..Len(filters) : ~Contains(Strip(filters[i]), "=")

\* promote_attributes.py:248-280
validate_arguments(args) ==
    IF args.source_field = <<>> THEN FALSE
    ELSE IF args.target_field = <<>> THEN FALSE
    ELSE IF ~validate_field_path(args.source_field) THEN FALSE
    ELSE IF ~validate_field_path(args.target_field) THEN FALSE
    ELSE IF args.filter # PyNone /\ args.filter.v # <<>>
            /\ ParseFilterRaises(args.filter.v)
    THEN FALSE
    ELSE TRUE

\* The locals of main(): the arguments, the exit code once the process has
\* exited, and whether connect_mongodb and a read of the collection happened
MainLoc(args, code, connected, read) ==
    [id |-> "", existing |-> PyNone, docs |-> <<>>, sf |-> <<>>, tf |-> <<>>,
     args |-> args, code |-> code, connected |-> connected, read |-> read]

InitArgs ==
    /\ store = [i \in DocIds |-> PyNone]
    /\ nextId = 1
    /\ now = 1
    /\ pc = [p \in Procs |-> "idle"]
    /\ \E args \in Arguments :
         loc = [p \in Procs |->
                  IF p = Admin THEN MainLoc(args, PyNone, FALSE, FALSE)
                  ELSE IdleLoc]
    /\ lastWrite = NoWrite
    /\ cdoc = PyNone
    /\ cprev = PyNone
    /\ cruns = 0

\* promote_attributes.py:584-585
MainValidate ==
    /\ pc[Admin] = "idle"
    /\ IF validate_arguments(loc[Admin].args)
       THEN /\ pc' = [pc EXCEPT ![Admin] = "validated"]
            /\ UNCHANGED loc
       ELSE /\ pc' = [pc EXCEPT ![Admin] = "exited"]
            /\ loc' = [loc EXCEPT ![Admin].code = Num(1)]
    /\ UNCHANGED <<store, nextId, now, lastWrite, cdoc, cprev, cruns>>

\* promote_attributes.py:594-596: connect_mongodb succeeds or fails
MainConnect ==
    /\ pc[Admin] = "validated"
    /\ \E ok \in BOOLEAN :
         IF ok
         THEN /\ pc' = [pc EXCEPT ![Admin] = "connected"]
              /\ loc' = [loc EXCEPT ![Admin].connected = TRUE]
         ELSE /\ pc' = [pc EXCEPT ![Admin] = "exited"]
              /\ loc' = [loc EXCEPT ![Admin].code = Num(1)]
    /\ UNCHANGED <<store, nextId, now, lastWrite, cdoc, cprev, cruns>>

\* promote_attributes.py:616-622: count_documents on a collection that holds
\* no document finds none, and the run ends with exit code 0
MainCount ==
    /\ pc[Admin] = "connected"
    /\ Live(store) = {}
    /\ pc' = [pc EXCEPT ![Admin] = "exited"]
    /\ loc' = [loc EXCEPT ![Admin].read = TRUE, ![Admin].code = Num(0)]
    /\ UNCHANGED <<store, nextId, now, lastWrite, cdoc, cprev, cruns>>

NextArgs == MainValidate \/ MainConnect \/ MainCount

SpecArgs == InitArgs /\ [][NextArgs]_vars

(***************************************************************************)
(* promote_attributes.main() with --all, --yes and the confirmation prompt *)
(* on a collection of up to MaxColl envelopes: one run from the query to   *)
(* the iterations of process_documents.                                    *)
(***************************************************************************)
\* promote_attributes.py:651: the prompt is shown above this many documents
ConfirmThreshold == 10

\* What the operator may type at the prompt
Responses ==
    {<<"y">>, <<"y", "e", "s">>, <<"Y">>, <<" ", "y", "e", "s", " ">>,
     <<"n">>, <<"n", "o">>, <<"y", "e">>, <<>>}

UpperCase ==
    <<"A", "B", "C", "D", "E", "F", "G", "H", "I", "J", "K", "L", "M",
      "N", "O", "P", "Q", "R", "S", "T", "U", "V", "W", "X", "Y", "Z">>

LowerCase ==
    <<"a", "b", "c", "d", "e", "f", "g", "h", "i", "j", "k", "l", "m",
      "n", "o", "p", "q", "r", "s", "t", "u", "v", "w", "x", "y", "z">>

\* str.lower() on one character
LowerChar(c) ==
    IF \E i \in 1..Len(UpperCase) : UpperCase[i] = c
    THEN LowerCase[CHOOSE i \in 1..Len(UpperCase) : UpperCase[i] = c]
    ELSE c

Lower(q) == [i \in 1..Len(q) |-> LowerChar(q[i])]

\* Mutant: the empty answer is taken as consent.
ConfirmDefaultsYes(response) ==
    Lower(Strip(response)) \in {<<"y">>, <<"y", "e", "s">>, <<>>}

\* promote_attributes.py:497-498
confirm_operation(response) ==
    Lower(Strip(response)) \in {<<"y">>, <<"y", "e", "s">>}

\* The collection after n CelesTrak records of distinct designators were
\* imported into an empty store
CollIdentifier(i) == <<"2", "0">> \o ZeroPad(Decimal(i), 3) \o <<"A">>

Collection(n) ==
    [i \in 1..n |->
        Put(EnvelopeOf(Text(CollIdentifier(i)), "celestrak",
                       CelestrakRecord(CollIdentifier(i)), 0),
            "_id", Num(i))]

ConfirmPair ==
    [sf |-> <<"celestrak", "name">>, tf |-> <<"canonical", "display_name">>]

InitConfirm ==
    /\ \E n \in 0..MaxColl : store = Collection(n)
    /\ nextId = Len(store) + 1
    /\ now = 1
    /\ pc = [p \in Procs |-> "idle"]
    /\ loc = [p \in Procs |-> IdleLoc]
    /\ lastWrite = NoWrite
    /\ cdoc = PyNone
    /\ cprev = PyNone
    /\ cruns = 0

\* The locals of main(): those of the batch, the command-line flags, the
\* answer typed, whether the prompt was shown, the exit code once exited
ConfirmLoc(flags, documents, source_field, target_field, prompted, code) ==
    BatchLoc(flags, documents, source_field, target_field, flags.dry_run)
      @@ [prompted |-> prompted, code |-> code]

\* main(): promote_attributes.py:598-663, from the query to the call of
\* process_documents
ConfirmMain ==
    /\ pc[Admin] = "idle"
    /\ loc[Admin] = IdleLoc
    /\ \E all \in BOOLEAN, yes \in BOOLEAN, dry_run \in BOOLEAN,
          response \in Responses :
         LET source_field == normalize_field_path(ConfirmPair.sf)
             target_field == normalize_field_path(ConfirmPair.tf)
             matching == FindAll(store,
                                 LAMBDA d : QueryMatches(d, source_field))
             documents == IF all THEN matching
                          ELSE SubSeqTo(matching, PromoLimit)
             prompted == Len(documents) > ConfirmThreshold /\ ~yes
             flags == [sf |-> ConfirmPair.sf, tf |-> ConfirmPair.tf,
                       all |-> all, yes |-> yes, dry_run |-> dry_run,
                       response |-> IF prompted THEN response ELSE <<>>]
         IN  /\ ~prompted => response = <<>>
             /\ IF matching = <<>>
                THEN /\ pc' = [pc EXCEPT ![Admin] = "exited"]
                     /\ loc' = [loc EXCEPT ![Admin] =
                                  ConfirmLoc(flags, <<>>, source_field,
                                             target_field, FALSE, Num(0))]
                ELSE IF prompted /\ ~confirm_operation(response)
                THEN /\ pc' = [pc EXCEPT ![Admin] = "exited"]
                     /\ loc' = [loc EXCEPT ![Admin] =
                                  ConfirmLoc(flags, documents, source_field,
                                             target_field, TRUE, Num(0))]
                ELSE /\ pc' = [pc EXCEPT ![Admin] = "promoting"]
                     /\ loc' = [loc EXCEPT ![Admin] =
                                  ConfirmLoc(flags, documents, source_field,
                                             target_field, prompted, PyNone)]
    /\ UNCHANGED <<store, nextId, now, lastWrite, cdoc, cprev, cruns>>

NextConfirm == ConfirmMain \/ BatchStep

SpecConfirm == InitConfirm /\ [][NextConfirm]_vars

(***************************************************************************)
(* match_designator_format applied repeatedly to one designator: cdoc is   *)
(* the designator given, cprev the latest result, cruns the number of      *)
(* applications.                                                           *)
(***************************************************************************)
LaunchYears == {1957, 1958, 1998, 2000, 2024}

LaunchNumbers == {1, 67, 999}

Pieces == {<<"A">>, <<"B">>, <<"A", "B">>}

\* YYYY-NNNX as the UNOOSA register writes it
LongForm(year, number, piece) ==
    Decimal(year) \o <<"-">> \o Format03(number) \o piece

LongDesignators ==
    {LongForm(y, n, p) : y \in LaunchYears, n \in LaunchNumbers, p \in Pieces}

\* No separator, a sequence that is no number, nothing after the separator,
\* too short, a letter in the sequence of the short form, the empty string
MalformedDesignators ==
    {<<"1", "9", "9", "8", "0", "6", "7", "A">>,
     <<"1", "9", "9", "8", "-", "0", "X", "7", "A">>,
     <<"1", "9", "9", "8", "-">>,
     <<"1", "9", "9", "8", "-", "A">>,
     <<"9", "8", "0", "6">>,
     <<"9", "8", "A", "6", "7", "B">>,
     <<>>}

InitDesig ==
    /\ store = [i \in DocIds |-> PyNone]
    /\ nextId = 1
    /\ now = 1
    /\ pc = [p \in Procs |-> "idle"]
    /\ loc = [p \in Procs |-> IdleLoc]
    /\ lastWrite = NoWrite
    /\ \E d \in LongDesignators \cup MalformedDesignators
                  \cup CelestrakDesignators : cdoc = Text(d)
    /\ cprev = cdoc
    /\ cruns = 0

\* One more call of match_designator_format, on the result of the last
Convert ==
    /\ cruns <= MaxRuns
    /\ cprev # PyNone
    /\ cprev' = match_designator_format(cprev.v)
    /\ cruns' = cruns + 1
    /\ UNCHANGED <<store, nextId, now, pc, loc, lastWrite, cdoc>>

NextDesig == Convert

SpecDesig == InitDesig /\ [][NextDesig]_vars

(***************************************************************************)
(* db.search_satellites and db.count_satellites applied to one request on  *)
(* one collection: cdoc is the request, lastWrite the page returned by the *)
(* search, loc[Admin] the count returned.                                  *)
(***************************************************************************)
\* {"$regex": pattern, "$options": "i"} for a pattern of letters and digits:
\* the value is a string and holds the pattern somewhere, case ignored
RegexMatches(pattern, value) ==
    /\ value.t = "text"
    /\ \E i \in 1..(Len(value.v) - Len(pattern) + 1) :
         Lower(SubSeq(value.v, i, i + Len(pattern) - 1)) = Lower(pattern)

RegexField(doc, field, pattern) ==
    RegexMatches(pattern.v, get_nested_field(doc, <<"canonical", field>>))

\* Python truth of an optional string argument
Given(arg) == arg # PyNone /\ arg.v # <<>>

\* Mutant: the count forgets the orbital band.
CountFilterNoBand(a, doc) ==
    /\ Given(a.query) =>
         \/ RegexField(doc, "name", a.query)
         \/ RegexField(doc, "object_name", a.query)
         \/ RegexField(doc, "international_designator", a.query)
         \/ RegexField(doc, "registration_number", a.query)
    /\ Given(a.country) => RegexField(doc, "country_of_origin", a.country)
    /\ Given(a.status) => RegexField(doc, "status", a.status)
    /\ Given(a.congestion_risk) =>
         RegexField(doc, "congestion_risk", a.congestion_risk)

\* db.py:290-310: the filters built by search_satellites
SearchFilter(a, doc) ==
    /\ Given(a.query) =>
         \/ RegexField(doc, "name", a.query)
         \/ RegexField(doc, "object_name", a.query)
         \/ RegexField(doc, "international_designator", a.query)
         \/ RegexField(doc, "registration_number", a.query)
    /\ Given(a.country) => RegexField(doc, "country_of_origin", a.country)
    /\ Given(a.status) => RegexField(doc, "status", a.status)
    /\ Given(a.orbital_band) =>
         RegexField(doc, "orbital_band", a.orbital_band)
    /\ Given(a.congestion_risk) =>
         RegexField(doc, "congestion_risk", a.congestion_risk)

\* db.py:329-349: the filters built by count_satellites
CountFilter(a, doc) ==
    /\ Given(a.query) =>
         \/ RegexField(doc, "name", a.query)
         \/ RegexField(doc, "object_name", a.query)
         \/ RegexField(doc, "international_designator", a.query)
         \/ RegexField(doc, "registration_number", a.query)
    /\ Given(a.country) => RegexField(doc, "country_of_origin", a.country)
    /\ Given(a.status) => RegexField(doc, "status", a.status)
    /\ Given(a.orbital_band) =>
         RegexField(doc, "orbital_band", a.orbital_band)
    /\ Given(a.congestion_risk) =>
         RegexField(doc, "congestion_risk", a.congestion_risk)

\* db.py:312-316: find(filters).skip(skip).limit(limit); limit(0) is no limit
search_satellites(st, a, limit, skip) ==
    LET found == FindAll(st, LAMBDA d : SearchFilter(a, d))
        rest == SubSeq(found, skip + 1, Len(found))
    IN  IF limit = 0 THEN rest ELSE SubSeqTo(rest, limit)

\* db.py:351: count_documents(filters)
count_satellites(st, a) == Len(FindAll(st, LAMBDA d : CountFilter(a, d)))

SearchEnvelope(canonical) ==
    Dict(<<"canonical">>, [k \in {"canonical"} |-> canonical])

SearchDocs ==
    {SearchEnvelope(Dict(<<"name", "international_designator",
                           "country_of_origin", "status", "orbital_band",
                           "congestion_risk">>,
        [k \in {"name", "international_designator", "country_of_origin",
                "status", "orbital_band", "congestion_risk"} |->
           CASE k = "name" -> Text(<<"I", "S", "S">>)
             [] k = "international_designator" ->
                  Text(<<"1", "9", "9", "8", "-", "0", "6", "7", "A">>)
             [] k = "country_of_origin" -> Text(<<"U", "S">>)
             [] k = "status" -> Text(<<"A", "c", "t", "i", "v", "e">>)
             [] k = "orbital_band" -> Text(<<"L", "E", "O">>)
             [] OTHER -> Text(<<"H", "I", "G", "H">>)])),
     SearchEnvelope(Dict(<<"name", "country_of_origin", "status",
                           "orbital_band", "congestion_risk">>,
        [k \in {"name", "country_of_origin", "status", "orbital_band",
                "congestion_risk"} |->
           CASE k = "name" -> Text(<<"M", "i", "r">>)
             [] k = "country_of_origin" ->
                  Text(<<"R", "u", "s", "s", "i", "a">>)
             [] k = "status" ->
                  Text(<<"i", "n", "a", "c", "t", "i", "v", "e">>)
             [] k = "orbital_band" -> Text(<<"L", "E", "O">>)
             [] OTHER -> Text(<<"l", "o", "w">>)])),
     SearchEnvelope(Dict(<<"object_name", "status", "orbital_band">>,
        [k \in {"object_name", "status", "orbital_band"} |->
           CASE k = "object_name" ->
                  Text(<<"i", "s", "s", " ", "d", "e", "b">>)
             [] k = "status" -> Num(1)
             [] OTHER -> Text(<<"G", "E", "O">>)]))}

SearchRequests ==
    [query : {PyNone, Text(<<>>), Text(<<"i", "s", "s">>)},
     country : {PyNone, Text(<<"u", "s">>)},
     status : {PyNone, Text(<<"a", "c", "t", "i", "v", "e">>)},
     orbital_band : {PyNone, Text(<<"l", "e", "o">>)},
     congestion_risk : {PyNone, Text(<<"h", "i", "g", "h">>)}]

PageLimits == {0, 1, 100}

InitSearch ==
    /\ store \in [DocIds -> SearchDocs \cup {PyNone}]
    /\ nextId = 1
    /\ now = 1
    /\ pc = [p \in Procs |-> "idle"]
    /\ loc = [p \in Procs |-> IdleLoc]
    /\ lastWrite = NoWrite
    /\ \E a \in SearchRequests : cdoc = [t |-> "request", v |-> a]
    /\ cprev = PyNone
    /\ cruns = 0

Search ==
    /\ lastWrite = NoWrite
    /\ \E limit \in PageLimits, skip \in 0..1 :
         lastWrite' = [op |-> "search", limit |-> limit, skip |-> skip,
                       result |-> search_satellites(store, cdoc.v, limit,
                                                    skip)]
    /\ UNCHANGED <<store, nextId, now, pc, loc, cdoc, cprev, cruns>>

Count ==
    /\ loc[Admin] = IdleLoc
    /\ loc' = [loc EXCEPT ![Admin] =
                 [op |-> "count", n |-> count_satellites(store, cdoc.v)]]
    /\ UNCHANGED <<store, nextId, now, pc, lastWrite, cdoc, cprev, cruns>>

NextSearch == Search \/ Count

SpecSearch == InitSearch /\ [][NextSearch]_vars

(***************************************************************************)
(* merge_kaggle_sources run, and run again, on a collection the importers  *)
(* filled before, with sequential imports in between.                      *)
(***************************************************************************)
\* The calls of create_satellite_document made by earlier import runs
ImportRuns == UNION {[1..n -> UpsertInputs] : n \in 0..MaxDocs}

\* The collection and the _id counter after those calls
RECURSIVE Imported(_)
Imported(q) ==
    IF q = <<>> THEN [store |-> [i \in DocIds |-> PyNone], nextId |-> 1]
    ELSE LET r == Imported(SubSeq(q, 1, Len(q) - 1))
             inp == q[Len(q)]
         IN  create_satellite_document(r.store, r.nextId, Str(inp.id),
                                       inp.source, inp.data, 0)

InitMerge ==
    /\ \E q \in ImportRuns :
         /\ store = Imported(q).store
         /\ nextId = Imported(q).nextId
    /\ now = 1
    /\ pc = [p \in Procs |-> "idle"]
    /\ loc = [p \in Procs |-> IdleLoc]
    /\ lastWrite = NoWrite
    /\ cdoc = PyNone
    /\ cprev = PyNone
    /\ cruns = 0

NextMerge == SeqUpsert \/ MergeLoad \/ MergeStep

SpecMerge == InitMerge /\ [][NextMerge]_vars

(***************************************************************************)
(* The caches of api.py, one key each: cdoc holds the TLE cache, the       *)
(* document-link cache and the document-metadata cache, now is time.time() *)
(* in seconds, lastWrite the last lookup and what the caller received.     *)
(***************************************************************************)
\* api.py:34
CACHE_TTL == 3600

\* cache[key] = value with cache_time[key] = at
CacheEntry(value, at) == [t |-> "entry", v |-> value, at |-> at]

\* current_time - cache_time.get(key, 0) < CACHE_TTL
Fresh(entry, current_time) == current_time - entry.at < CACHE_TTL

Lookup(op, returned, hit) ==
    [op |-> op, time |-> now, returned |-> returned, hit |-> hit]

InitCache ==
    /\ store = [i \in DocIds |-> PyNone]
    /\ nextId = 1
    /\ now = 1
    /\ pc = [p \in Procs |-> "idle"]
    /\ loc = [p \in Procs |-> IdleLoc]
    /\ lastWrite = NoWrite
    /\ cdoc = [tle |-> PyNone, link |-> PyNone, meta |-> PyNone]
    /\ cprev = PyNone
    /\ cruns = 0

\* Time passes between two requests
Tick ==
    /\ cruns < MaxRuns
    /\ \E d \in {1, CACHE_TTL - 1} : now' = now + d
    /\ cruns' = cruns + 1
    /\ UNCHANGED <<store, nextId, pc, loc, lastWrite, cdoc, cprev>>

\* api.py:37-77 fetch_tle_data(): the feeds list the satellite, or they are
\* unreachable or list it no longer
FetchTleData ==
    /\ \E listed \in BOOLEAN :
         LET hit == cdoc.tle # PyNone /\ Fresh(cdoc.tle, now)
             tle_cache == IF hit \/ ~listed THEN cdoc.tle
                          ELSE CacheEntry(Str("tle"), now)
         IN  /\ cdoc' = [cdoc EXCEPT !.tle = tle_cache]
             /\ lastWrite' = Lookup("tle", tle_cache, hit)
    /\ UNCHANGED <<store, nextId, now, pc, loc, cprev, cruns>>

\* api.py:156-245 fetch_english_doc_link(path): some attempt finds a link,
\* or none does
FetchEnglishDocLink ==
    /\ \E found \in BOOLEAN :
         LET hit == cdoc.link # PyNone /\ Fresh(cdoc.link, now)
             entry == IF hit THEN cdoc.link
                      ELSE CacheEntry(IF found THEN Str("link") ELSE PyNone,
                                      now)
         IN  /\ cdoc' = [cdoc EXCEPT !.link = entry]
             /\ lastWrite' = Lookup("link", entry, hit)
    /\ UNCHANGED <<store, nextId, now, pc, loc, cprev, cruns>>

\* api.py:341-372 get_document_metadata(url): extract_document_metadata
\* returns metadata or None
GetDocumentMetadata ==
    /\ \E found \in BOOLEAN :
         LET hit == cdoc.meta # PyNone /\ Fresh(cdoc.meta, now)
             entry == IF hit THEN cdoc.meta
                      ELSE CacheEntry(IF found THEN Str("metadata")
                                      ELSE PyNone, now)
         IN  /\ cdoc' = [cdoc EXCEPT !.meta = entry]
             /\ lastWrite' = Lookup("meta", entry, hit)
    /\ UNCHANGED <<store, nextId, now, pc, loc, cprev, cruns>>

NextCache ==
    Tick \/ FetchTleData \/ FetchEnglishDocLink \/ GetDocumentMetadata

SpecCache == InitCache /\ [][NextCache]_vars

(***************************************************************************)
(* import_spacetrack_tle.import_space_track_tle with its thread pool: one  *)
(* future per satellite, run by a worker in two network steps, and the     *)
(* coordinating thread that handles the completed futures.  loc[Admin]     *)
(* holds the locals of the run and the futures.                            *)
(***************************************************************************)
\* The calls of create_satellite_document that filled the collection; the
\* Kaggle record may carry the NORAD id too
TrackInputs ==
    UpsertInputs
      \cup {[id |-> "norad-25544", source |-> "kaggle_1", data |-> RecFull]}

InitTrack ==
    /\ \E n \in 0..MaxDocs : \E q \in [1..n -> TrackInputs] :
         /\ store = Imported(q).store
         /\ nextId = Imported(q).nextId
    /\ now = 1
    /\ pc = [p \in Procs |-> "idle"]
    /\ loc = [p \in Procs |-> IdleLoc]
    /\ lastWrite = NoWrite
    /\ cdoc = PyNone
    /\ cprev = PyNone
    /\ cruns = 0

\* A submitted future: not started, logged in with its session, or done
\* with the result of process_satellite
Queued == [stage |-> "queued", session |-> 0, result |-> PyNone]

\* Mutant: the worker writes the TLE into the envelope it was given.
ProcessSatelliteMutatesSat(sat, tle_data) ==
    [sat |-> IF tle_data = PyNone THEN sat
             ELSE WithSource(sat, "spacetrack", tle_data),
     norad_id |-> get_nested_field(sat, <<"canonical", "norad_cat_id">>),
     tle_data |-> tle_data]

\* import_spacetrack_tle.py:72-93: what process_satellite returns
process_satellite(sat, tle_data) ==
    [sat |-> sat,
     norad_id |-> get_nested_field(sat, <<"canonical", "norad_cat_id">>),
     tle_data |-> tle_data]

\* Mutant: a result without TLE is written like any other.
HandleResultWritesAlways(st, result, t) ==
    replace_one_by_identifier(
        st, IdentifierOf(result.sat),
        StUpdate(result.sat,
                 IF result.tle_data = PyNone THEN EmptyDict
                 ELSE result.tle_data, t))

\* import_spacetrack_tle.py:125-135: the collection after the coordinating
\* thread handled one result
HandleResult(st, result, t) ==
    IF result.tle_data = PyNone THEN st
    ELSE replace_one_by_identifier(st, IdentifierOf(result.sat),
                                   StUpdate(result.sat, result.tle_data, t))

TrackLoc(satellites) ==
    [docs |-> satellites, start |-> store, total |-> Len(satellites),
     fut |-> [n \in 1..Len(satellites) |-> Queued],
     handled |-> {}, updated |-> 0, failed |-> 0,
     sessions |-> 0, writes |-> <<>>]

\* import_spacetrack_tle.py:96-114: the query and the submission of one
\* future per satellite
TrackStart ==
    /\ pc[Admin] = "idle"
    /\ LET satellites == FindAll(store, HasNorad)
       IN  /\ loc' = [loc EXCEPT ![Admin] = TrackLoc(satellites)]
           /\ pc' = [pc EXCEPT ![Admin] =
                        IF satellites = <<>> THEN "returned"
                        ELSE "tracking"]
    /\ UNCHANGED <<store, nextId, now, lastWrite, cdoc, cprev, cruns>>

\* import_spacetrack_tle.py:77-84: a worker creates its session and logs in
WorkerLogin ==
    /\ pc[Admin] = "tracking"
    /\ \E n \in DOMAIN loc[Admin].fut, ok \in BOOLEAN :
         LET l == loc[Admin] IN
         /\ l.fut[n].stage = "queued"
         /\ loc' = [loc EXCEPT ![Admin] =
              IF ok
              THEN [l EXCEPT !.sessions = l.sessions + 1,
                             !.fut[n] = [stage |-> "session",
                                         session |-> l.sessions + 1,
                                         result |-> PyNone]]
              ELSE [l EXCEPT !.fut[n] =
                      [stage |-> "done", session |-> 0,
                       result |-> process_satellite(l.docs[n], PyNone)]]]
    /\ UNCHANGED <<store, nextId, now, pc, lastWrite, cdoc, cprev, cruns>>

\* import_spacetrack_tle.py:86-93: the worker's query returns a TLE or None
WorkerFetch ==
    /\ pc[Admin] = "tracking"
    /\ \E n \in DOMAIN loc[Admin].fut, tle_data \in {TleData, PyNone} :
         LET l == loc[Admin] IN
         /\ l.fut[n].stage = "session"
         /\ loc' = [loc EXCEPT ![Admin] =
              [l EXCEPT !.fut[n] =
                 [stage |-> "done", session |-> l.fut[n].session,
                  result |-> process_satellite(l.docs[n], tle_data)]]]
    /\ UNCHANGED <<store, nextId, now, pc, lastWrite, cdoc, cprev, cruns>>

\* import_spacetrack_tle.py:116-139: the coordinating thread takes the next
\* completed future; after the last one the function prints and returns
Coordinate ==
    /\ pc[Admin] = "tracking"
    /\ \E n \in DOMAIN loc[Admin].fut \ loc[Admin].handled :
         LET l == loc[Admin]
             result == l.fut[n].result
             wrote == result.tle_data # PyNone
             handled == l.handled \cup {n}
         IN  /\ l.fut[n].stage = "done"
             /\ store' = HandleResult(store, result, now)
             /\ now' = IF wrote THEN now + 1 ELSE now
             /\ lastWrite' =
                  IF wrote
                  THEN [op |-> "spacetrack", proc |-> Admin,
                        id |-> IdentifierOf(result.sat),
                        src |-> "spacetrack", data |-> result.tle_data,
                        before |-> FindByIdentifier(
                                       store, IdentifierOf(result.sat)),
                        snap |-> l.docs[n],
                        after |-> StUpdate(result.sat, result.tle_data, now),
                        ok |-> TRUE]
                  ELSE lastWrite
             /\ loc' = [loc EXCEPT ![Admin] =
                  [l EXCEPT !.handled = handled,
                            !.updated = IF wrote THEN @ + 1 ELSE @,
                            !.failed = IF wrote THEN @ ELSE @ + 1,
                            !.writes = IF store' # store
                                       THEN Append(@, IdentifierOf(result.sat))
                                       ELSE @]]
             /\ pc' = [pc EXCEPT ![Admin] =
                          IF handled = DOMAIN l.fut THEN "returned"
                          ELSE "tracking"]
    /\ UNCHANGED <<nextId, cdoc, cprev, cruns>>

NextTrack == TrackStart \/ WorkerLogin \/ WorkerFetch \/ Coordinate

SpecTrack == InitTrack /\ [][NextTrack]_vars

(***************************************************************************)
(* The fetch loops of the CelesTrak importers over the first MaxFeeds      *)
(* entries of TLE_SOURCES: loc[Admin] counts the requests sent to each     *)
(* feed URL and records which feeds gave TLE records.                      *)
(***************************************************************************)
\* import_celestrak_tle.py:165-175 and import_celestrak_tle_sample.py:
\* 130-153: a run of one of the two importers begins
FeedStart ==
    /\ pc[Admin] = "idle"
    /\ \E importer \in {"celestrak", "sample"} :
         loc' = [loc EXCEPT ![Admin] =
                   [importer |-> importer, feed |-> 1,
                    requests |-> [u \in 1..MaxFeeds |-> 0],
                    fetched |-> [u \in 1..MaxFeeds |-> FALSE]]]
    /\ pc' = [pc EXCEPT ![Admin] = "fetching"]
    /\ UNCHANGED <<store, nextId, now, lastWrite, cdoc, cprev, cruns>>

\* import_celestrak_tle.py:175-180 with fetch_and_parse_tle_source (96-119):
\* one iteration; the request gives TLE records or nothing
CelestrakFetch ==
    /\ pc[Admin] = "fetching"
    /\ loc[Admin].importer = "celestrak"
    /\ \E tle_data \in BOOLEAN :
         LET l == loc[Admin] IN
         /\ loc' = [loc EXCEPT ![Admin] =
              [l EXCEPT !.requests[l.feed] = @ + 1,
                        !.fetched[l.feed] = tle_data,
                        !.feed = @ + 1]]
         /\ pc' = [pc EXCEPT ![Admin] =
                      IF l.feed = MaxFeeds THEN "processing" ELSE "fetching"]
    /\ UNCHANGED <<store, nextId, now, lastWrite, cdoc, cprev, cruns>>

\* import_celestrak_tle_sample.py:153-161: one iteration; when the first
\* request gives nothing the same URL is requested again with timeout 3
SampleFetch ==
    /\ pc[Admin] = "fetching"
    /\ loc[Admin].importer = "sample"
    /\ \E first \in BOOLEAN, second \in BOOLEAN :
         LET l == loc[Admin] IN
         /\ first => second
         /\ loc' = [loc EXCEPT ![Admin] =
              [l EXCEPT !.requests[l.feed] = IF first THEN @ + 1 ELSE @ + 2,
                        !.fetched[l.feed] = IF first THEN TRUE ELSE second,
                        !.feed = @ + 1]]
         /\ pc' = [pc EXCEPT ![Admin] =
                      IF l.feed = MaxFeeds THEN "processing" ELSE "fetching"]
    /\ UNCHANGED <<store, nextId, now, lastWrite, cdoc, cprev, cruns>>

NextFeeds == FeedStart \/ CelestrakFetch \/ SampleFetch

SpecFeeds == Init /\ [][NextFeeds]_vars

(***************************************************************************)
(* Two calls of create_satellite_document for one identifier made in both  *)
(* orders: cdoc is the envelope where the first call of lastWrite goes     *)
(* first, cprev the envelope where the second goes first.                  *)
(***************************************************************************)
CommuteId == "1998-067A"

\* db.py:163-201 on the envelope that find_one returned, or None
UpsertDoc(existing, source, data, t) ==
    IF existing = PyNone THEN NewEnvelope(CommuteId, source, data, t)
    ELSE UpsertExisting(existing, source, data, t)

InitCommute ==
    /\ store = [i \in DocIds |-> PyNone]
    /\ nextId = 1
    /\ now = 1
    /\ pc = [p \in Procs |-> "idle"]
    /\ loc = [p \in Procs |-> IdleLoc]
    /\ \E a \in CanonSources, b \in CanonSources :
         \E da \in CanonRecords, db \in CanonRecords :
            /\ a # b
            /\ lastWrite = [op |-> "pair", a |-> a, da |-> da,
                            b |-> b, db |-> db]
    /\ \E q \in ImportRuns : cdoc = FindByIdentifier(Imported(q).store,
                                                     CommuteId)
    /\ cprev = cdoc
    /\ cruns = 0

\* The first call in either order
UpsertOne ==
    /\ cruns = 0
    /\ cdoc' = UpsertDoc(cdoc, lastWrite.a, lastWrite.da, now)
    /\ cprev' = UpsertDoc(cprev, lastWrite.b, lastWrite.db, now)
    /\ now' = now + 1
    /\ cruns' = 1
    /\ UNCHANGED <<store, nextId, pc, loc, lastWrite>>

\* The second call in either order
UpsertOther ==
    /\ cruns = 1
    /\ cdoc' = UpsertDoc(cdoc, lastWrite.b, lastWrite.db, now)
    /\ cprev' = UpsertDoc(cprev, lastWrite.a, lastWrite.da, now)
    /\ now' = now + 1
    /\ cruns' = 2
    /\ UNCHANGED <<store, nextId, pc, loc, lastWrite>>

NextCommute == UpsertOne \/ UpsertOther

SpecCommute == InitCommute /\ [][NextCommute]_vars

(***************************************************************************)
(* Properties                                                              *)
(***************************************************************************)
Sources(doc) == doc.v["sources"]
Canonical(doc) == doc.v["canonical"]
Metadata(doc) == doc.v["metadata"]

Transformations(doc) ==
    IF Has(Metadata(doc), "transformations")
    THEN Metadata(doc).v["transformations"].v
    ELSE <<>>

\* A dict without one of its keys
Without(d, key) ==
    Dict(DelKey(d.k, key), [x \in (DOMAIN d.v) \ {key} |-> d.v[x]])

Range(q) == {q[i] : i \in 1..Len(q)}

Positions(q, x) == {i \in 1..Len(q) : q[i] = x}

Least(S) == CHOOSE i \in S : \A j \in S : i <= j

\* The envelope the last write was aimed at, as the store holds it now
Persisted == FindByIdentifier(store, lastWrite.id)

WrittenAndKept ==
    /\ lastWrite.op # "none"
    /\ lastWrite.ok
    /\ Persisted # PyNone
    /\ Persisted = lastWrite.after

\* C1: after every store write other than a manual promotion (upsert,
\* Space-Track import write, merge-by-name) the persisted canonical section
\* equals, ignoring updated_at, update_canonical of the envelope's current
\* sources and metadata.source_priority.
C1_CanonicalIsDerived ==
    (WrittenAndKept
       /\ lastWrite.op \in {"upsert_replace", "upsert_insert", "spacetrack",
                            "merge"})
    => Without(Canonical(Persisted), "updated_at")
         = Without(Canonical(update_canonical(Persisted, now)), "updated_at")

\* C2: after any store write to an envelope (upsert, Space-Track import
\* write, merge-by-name, persisted promotion to any valid target path)
\* metadata.sources_available equals the list of keys of the sources map.
C2_SourcesAvailableFresh ==
    WrittenAndKept
    => Get(Metadata(Persisted), "sources_available")
         = List(Keys(Sources(Persisted)))

\* The value dict.get(field) gives in the i-th source of a priority order
ValueAt(doc, prio, i, field) == Get(Sources(doc).v[prio[i]], field)

\* C3: for every scalar field of the canonical field list, canonical.<field>
\* is the value of the first source in effective priority order whose value
\* is present, not None and not the empty string; the field is absent from
\* canonical when no source has such a value.
C3_ScalarPriority ==
    cruns >= 1 =>
      \A field \in Range(canonical_fields) :
        LET prio == EffectivePriority(cdoc)
            real == {i \in 1..Len(prio) :
                        /\ ValueAt(cdoc, prio, i, field) # PyNone
                        /\ ValueAt(cdoc, prio, i, field) # Str("")}
        IN  IF real = {} THEN ~Has(Canonical(cdoc), field)
            ELSE /\ Has(Canonical(cdoc), field)
                 /\ Canonical(cdoc).v[field]
                      = ValueAt(cdoc, prio, Least(real), field)

\* C3 witness: the highest-priority source holds None or "" for status and
\* canonical.status is the real value of the next source.
C3_Witness ==
    /\ cruns >= 1
    /\ LET prio == EffectivePriority(cdoc)
       IN  /\ Len(prio) >= 2
           /\ Has(Sources(cdoc).v[prio[1]], "status")
           /\ ValueAt(cdoc, prio, 1, "status") \in {PyNone, Str("")}
           /\ ValueAt(cdoc, prio, 2, "status") \notin {PyNone, Str("")}
           /\ Get(Canonical(cdoc), "status") = ValueAt(cdoc, prio, 2, "status")

\* C4: orbit fields and TLE lines are resolved like scalar fields: a None or
\* empty-string value in a higher-priority source never shadows a
\* lower-priority source's real value in canonical.orbit or canonical.tle.
C4_NestedIgnoresEmpty ==
    cruns >= 1 =>
      \A field \in Range(orbital_fields) \cup Range(tle_fields) :
        LET prio == EffectivePriority(cdoc)
            real == {i \in 1..Len(prio) :
                        /\ ValueAt(cdoc, prio, i, field) # PyNone
                        /\ ValueAt(cdoc, prio, i, field) # Str("")}
            target == IF field \in Range(orbital_fields)
                      THEN Get(Canonical(cdoc).v["orbit"], field)
                      ELSE Get(Canonical(cdoc).v["tle"], tle_key(field))
        IN  real # {} => target = ValueAt(cdoc, prio, Least(real), field)

\* C5: the effective priority order recorded as canonical.source_priority
\* contains every key of the sources map exactly once: first the configured
\* names that are present, in configured order, then the present but
\* unlisted names in the insertion order of the sources map.
C5_EffectivePriority ==
    cruns >= 1 =>
      LET rec == Canonical(cdoc).v["source_priority"].v
          keys == Keys(Sources(cdoc))
          conf == ConfiguredPriority(cdoc)
          listed(s) == s \in Range(conf)
      IN  /\ Range(rec) = Range(keys)
          /\ \A s \in Range(keys) : Cardinality(Positions(rec, s)) = 1
          /\ \A i, j \in 1..Len(rec) :
               i < j =>
                 /\ ~(~listed(rec[i]) /\ listed(rec[j]))
                 /\ (listed(rec[i]) /\ listed(rec[j]))
                      => Least(Positions(conf, rec[i]))
                           < Least(Positions(conf, rec[j]))
                 /\ (~listed(rec[i]) /\ ~listed(rec[j]))
                      => Least(Positions(keys, rec[i]))
                           < Least(Positions(keys, rec[j]))

\* C5 witness: an envelope with a configured source and two unlisted ones was
\* canonicalized.
C5_Witness ==
    /\ cruns >= 1
    /\ LET keys == Range(Keys(Sources(cdoc)))
           conf == Range(ConfiguredPriority(cdoc))
       IN  /\ keys \cap conf # {}
           /\ Cardinality(keys \ conf) >= 2
           /\ Len(Canonical(cdoc).v["source_priority"].v) = Cardinality(keys)

\* C6: canonicalization is idempotent: a second update_canonical on unchanged
\* sources and source_priority yields the same canonical section, except for
\* updated_at.
C6_Idempotent ==
    cruns >= 2 =>
      Without(Canonical(cdoc), "updated_at") = Without(cprev, "updated_at")

\* C6 witness: update_canonical ran twice on an envelope with several sources
\* and only the timestamp moved.
C6_Witness ==
    /\ cruns >= 2
    /\ Len(Keys(Sources(cdoc))) >= 2
    /\ Has(Canonical(cdoc), "status")
    /\ Canonical(cdoc).v["updated_at"] # cprev.v["updated_at"]

\* C7: orbit fields are resolved independently per field: each canonical.orbit
\* field is taken from the highest-priority source that has the field, and a
\* field only a lower-priority source supplies is still present.
C7_OrbitPerField ==
    cruns >= 1 =>
      \A field \in Range(orbital_fields) :
        LET prio == EffectivePriority(cdoc)
            having == {i \in 1..Len(prio) :
                          ValueAt(cdoc, prio, i, field) # PyNone}
            orbit == Canonical(cdoc).v["orbit"]
        IN  IF having = {} THEN ~Has(orbit, field)
            ELSE /\ Has(orbit, field)
                 /\ orbit.v[field] = ValueAt(cdoc, prio, Least(having), field)

\* C7 witness: apogee_km comes from the first source, inclination_degrees,
\* which the first source lacks, from a later one.
C7_Witness ==
    /\ cruns >= 1
    /\ LET prio == EffectivePriority(cdoc)
           orbit == Canonical(cdoc).v["orbit"]
       IN  /\ Len(prio) >= 2
           /\ ValueAt(cdoc, prio, 1, "apogee_km") # PyNone
           /\ ValueAt(cdoc, prio, 1, "inclination_degrees") = PyNone
           /\ Get(orbit, "apogee_km") = ValueAt(cdoc, prio, 1, "apogee_km")
           /\ Has(orbit, "inclination_degrees")

\* C8: an upsert on an existing envelope replaces sources[s] wholesale with
\* the new record plus updated_at and leaves identifier, every other source
\* record, metadata.created_at, metadata.source_priority and
\* metadata.transformations as find_one read them.
C8_UpsertFrame ==
    (WrittenAndKept /\ lastWrite.op = "upsert_replace") =>
      LET old == lastWrite.snap
          new == Persisted
          s == lastWrite.src
          r == lastWrite.data
      IN  /\ Without(Sources(new).v[s], "updated_at") = r
          /\ Has(Sources(new).v[s], "updated_at")
          /\ Get(new, "identifier") = Get(old, "identifier")
          /\ Range(Keys(Sources(new))) = Range(Keys(Sources(old))) \cup {s}
          /\ \A t \in Range(Keys(Sources(old))) :
               t # s => Sources(new).v[t] = Sources(old).v[t]
          /\ Get(Metadata(new), "created_at") = Get(Metadata(old), "created_at")
          /\ Get(Metadata(new), "source_priority")
               = Get(Metadata(old), "source_priority")
          /\ Transformations(new) = Transformations(old)

\* C8 witness: a sequential re-import of a source whose previous record had a
\* field the new record lacks, on an envelope that holds another source too.
C8_Witness ==
    /\ WrittenAndKept
    /\ lastWrite.op = "upsert_replace"
    /\ lastWrite.snap = lastWrite.before
    /\ Has(Sources(lastWrite.snap), lastWrite.src)
    /\ \E k \in DOMAIN Sources(lastWrite.snap).v[lastWrite.src].v :
         k \notin DOMAIN lastWrite.data.v \cup {"updated_at"}
    /\ \E t \in Range(Keys(Sources(lastWrite.snap))) : t # lastWrite.src

\* C9: in every reachable state of the store no two envelopes share an
\* identifier, under any interleaving of concurrent upserts.
C9_UniqueIdentifier ==
    \A i, j \in Live(store) :
      IdentifierOf(store[i]) = IdentifierOf(store[j]) => i = j

\* C9 witness: a writer that had found no envelope for its identifier went on
\* to insert after another writer had inserted the same identifier.
C9_Witness ==
    /\ lastWrite.op = "upsert_insert"
    /\ lastWrite.snap = PyNone
    /\ lastWrite.before # PyNone
    /\ ~lastWrite.ok

\* C10: the read-modify-write cycle has no locking and the later replace
\* wins: a successful replace persists the writer's in-memory document, so
\* every source record and transformation record that the stored envelope
\* had gained since the writer's read is gone afterwards.
C10_LaterReplaceWins ==
    (WrittenAndKept /\ lastWrite.op \in {"upsert_replace", "promote"}
       /\ lastWrite.before # PyNone)
    => /\ \A s \in Range(Keys(Sources(lastWrite.before))) :
            (s \notin Range(Keys(Sources(lastWrite.snap))) /\ s # lastWrite.src)
              => ~Has(Sources(Persisted), s)
       /\ \A tr \in Range(Transformations(lastWrite.before)) :
            tr \notin Range(Transformations(lastWrite.snap))
              => tr \notin Range(Transformations(Persisted))

\* C10 witness: two writers raced on one identifier, both writes succeeded,
\* and the envelope lacks the source record the earlier writer had persisted.
C10_Witness ==
    /\ WrittenAndKept
    /\ lastWrite.op = "upsert_replace"
    /\ \E s \in Range(Keys(Sources(lastWrite.before))) :
         /\ s \notin Range(Keys(Sources(lastWrite.snap)))
         /\ s # lastWrite.src
         /\ ~Has(Sources(Persisted), s)

\* The same race between an upsert and a promotion: the promotion's
\* transformation record, persisted after the upsert's read, is gone.
LostTransformationReached ==
    /\ WrittenAndKept
    /\ lastWrite.op = "upsert_replace"
    /\ \E tr \in Range(Transformations(lastWrite.before)) :
         /\ tr \notin Range(Transformations(lastWrite.snap))
         /\ tr \notin Range(Transformations(Persisted))

\* Slots whose canonical.international_designator is the given string
DesignatorSlots(st, chars) ==
    {i \in Live(st) : CanonicalDesignator(st[i]) = Text(chars)}

AlternateSlots(st, chars) ==
    IF match_designator_format(chars) = PyNone THEN {}
    ELSE DesignatorSlots(st, match_designator_format(chars).v)

\* The slots the CelesTrak importer may write for a record: those matching
\* verbatim when there are any, else those matching the alternate encoding
CelestrakTargets(st, chars) ==
    IF DesignatorSlots(st, chars) # {} THEN DesignatorSlots(st, chars)
    ELSE AlternateSlots(st, chars)

\* C11: when the designator of a CelesTrak record equals, verbatim or after
\* match_designator_format, the canonical.international_designator of an
\* existing envelope, the record is written as the celestrak source of such
\* an envelope (a verbatim match before an alternate one), the envelope
\* keeps its identifier and the number of envelopes is unchanged; a new
\* envelope appears only when both lookups find nothing, and its identifier
\* is the record's designator.
C11_CelestrakMatch ==
    lastWrite.op = "celestrak" =>
        LET before == lastWrite.before
            targets == CelestrakTargets(before, lastWrite.id)
        IN  /\ targets # {} =>
                /\ Live(store) = Live(before)
                /\ \E i \in targets :
                     /\ store[i].v["identifier"] = before[i].v["identifier"]
                     /\ Without(Sources(store[i]).v["celestrak"],
                                "updated_at") = lastWrite.data
                     /\ \A j \in Live(before) \ {i} : store[j] = before[j]
            /\ \A i \in Live(store) \ Live(before) :
                 /\ targets = {}
                 /\ store[i].v["identifier"] = Text(lastWrite.id)

\* A record in the short encoding was written into the envelope the registry
\* created under the long encoding.
C11_Witness ==
    /\ lastWrite.op = "celestrak"
    /\ DesignatorSlots(lastWrite.before, lastWrite.id) = {}
    /\ \E i \in AlternateSlots(lastWrite.before, lastWrite.id) :
         /\ Has(Sources(store[i]), "celestrak")
         /\ ~Has(Sources(lastWrite.before[i]), "celestrak")
         /\ Text(lastWrite.id) # store[i].v["identifier"]

IsPrefix(p, q) == Len(p) <= Len(q) /\ SubSeq(q, 1, Len(p)) = p

\* The step is an iteration of process_documents that persisted the
\* promotion of the document in slot i
PersistsPromotionOf(i) ==
    /\ pc[Admin] = "promoting"
    /\ DocSlot(Head(loc[Admin].docs)) = i
    /\ loc'[Admin].stats.updated = loc[Admin].stats.updated + 1

\* C12: the transformation log is append-only.  In every step of a
\* sequential run of upserts and promotions every persisted envelope stays,
\* its log before the step is a prefix of its log after the step, and the
\* log is longer by exactly one record when the step persisted a promotion
\* of that envelope and is unchanged in every other step.
C12_LogAppendOnly ==
    [][\A i \in Live(store) :
         /\ i \in Live(store')
         /\ IsPrefix(Transformations(store[i]), Transformations(store'[i]))
         /\ Len(Transformations(store'[i]))
              = Len(Transformations(store[i]))
                  + (IF PersistsPromotionOf(i) THEN 1 ELSE 0)]_vars

\* Two promotions of one envelope were persisted, and the first record is
\* still the first of its log.
C12_Witness ==
    /\ lastWrite.op = "promote"
    /\ lastWrite.ok
    /\ Len(Transformations(lastWrite.snap)) = 1
    /\ Len(Transformations(Persisted)) = 2
    /\ Transformations(Persisted)[1] = Transformations(lastWrite.snap)[1]

\* What normalize_field_path is specified to return for a command-line path
NormalizedPath(p) ==
    IF Head(p) \in {"kaggle", "unoosa", "celestrak", "spacetrack"}
    THEN <<"sources">> \o p
    ELSE p

\* C13: a successful promote_document leaves in memory a document whose log
\* is the previous log with exactly one record appended, the record holding
\* the normalized source path, the target path and the value read at the
\* source path; the value at the target path is that value; and the document
\* a persisted promotion writes to the store is this document.
C13_PromoteRecords ==
    (lastWrite.op = "promote" /\ lastWrite.success) =>
      LET old == lastWrite.snap
          new == lastWrite.after
          source_field == NormalizedPath(lastWrite.args.sf)
          target_field == NormalizedPath(lastWrite.args.tf)
          value == get_nested_field(old, source_field)
          log == Transformations(new)
      IN  /\ value # PyNone
          /\ Len(log) = Len(Transformations(old)) + 1
          /\ SubSeq(log, 1, Len(log) - 1) = Transformations(old)
          /\ log[Len(log)].v["source_field"] = Path(source_field)
          /\ log[Len(log)].v["target_field"] = Path(target_field)
          /\ log[Len(log)].v["value"] = value
          /\ get_nested_field(new, target_field) = value
          /\ lastWrite.ok => store[DocSlot(new)] = new

\* A promotion given a source path without the sources prefix was persisted:
\* the record names the path under sources, and the promoted value replaced
\* a different one.
C13_Witness ==
    /\ lastWrite.op = "promote"
    /\ lastWrite.success
    /\ lastWrite.ok
    /\ Head(lastWrite.args.sf) # "sources"
    /\ Head(lastWrite.tf) = "canonical"
    /\ store[DocSlot(lastWrite.after)] = lastWrite.after
    /\ get_nested_field(lastWrite.snap, lastWrite.tf) # PyNone
    /\ get_nested_field(lastWrite.snap, lastWrite.tf)
         # get_nested_field(lastWrite.after, lastWrite.tf)

\* C14: a value a promotion wrote into the canonical section does not
\* survive the next upsert of the envelope.  After the upsert the field at
\* the promoted target path holds what update_canonical derives from the
\* sources (nothing, when no source has a value for it), and every record of
\* the log is still in its place.
C14_PromotionTransient ==
    (lastWrite.op = "upsert" /\ lastWrite.ok /\ lastWrite.snap # PyNone) =>
      \A n \in 1..Len(Transformations(lastWrite.snap)) :
        LET rec == Transformations(lastWrite.snap)[n]
            target_field == rec.v["target_field"].v
        IN  /\ n <= Len(Transformations(Persisted))
            /\ Transformations(Persisted)[n] = rec
            /\ Head(target_field) = "canonical" =>
                 get_nested_field(Persisted, target_field)
                   = get_nested_field(update_canonical(Persisted, now),
                                      target_field)

\* An upsert found an envelope whose canonical field held a promoted value,
\* and the field no longer holds it.
C14_Witness ==
    /\ lastWrite.op = "upsert"
    /\ lastWrite.ok
    /\ lastWrite.snap # PyNone
    /\ \E n \in 1..Len(Transformations(lastWrite.snap)) :
         LET rec == Transformations(lastWrite.snap)[n]
             target_field == rec.v["target_field"].v
         IN  /\ Head(target_field) = "canonical"
             /\ get_nested_field(lastWrite.snap, target_field)
                  = rec.v["value"]
             /\ get_nested_field(Persisted, target_field) # rec.v["value"]
             /\ Transformations(Persisted)[n] = rec

\* C15: after every persisted write to an envelope (upsert, persisted
\* promotion, merge-by-name, Space-Track import write) the envelope's
\* metadata.last_updated_at is the time of that write, it is not earlier
\* than the value the writer read, and metadata.created_at is the value the
\* writer read.
C15_LastUpdatedIsWriteTime ==
    (WrittenAndKept
       /\ lastWrite.op \in {"upsert_replace", "upsert_insert", "promote",
                            "merge", "spacetrack"}) =>
      /\ Get(Metadata(Persisted), "last_updated_at") = Num(now - 1)
      /\ lastWrite.snap # PyNone =>
           /\ Get(Metadata(Persisted), "created_at")
                = Get(Metadata(lastWrite.snap), "created_at")
           /\ Get(Metadata(Persisted), "last_updated_at").v
                >= Get(Metadata(lastWrite.snap), "last_updated_at").v

\* The locals of the promoter describe a run that is under way or has just
\* returned: no importer has written since main() read the batch
InRun ==
    /\ loc[Admin] # IdleLoc
    /\ pc[Admin] = "promoting" \/ lastWrite.op = "promote"

Processed == Len(loc[Admin].batch) - Len(loc[Admin].docs)

\* lastWrite describes the latest iteration of this run
StepDone == InRun /\ Processed > 0

Returned == InRun /\ pc[Admin] = "idle"

\* C16: in dry-run mode process_documents writes nothing.  At every point of
\* the run the collection is the one main() found, stats.updated is 0, and
\* stats.skipped counts the processed documents whose promote_document
\* succeeds.
C16_DryRunFrame ==
    (InRun /\ loc[Admin].dry_run) =>
      /\ store = loc[Admin].start
      /\ loc[Admin].stats.updated = 0
      /\ loc[Admin].stats.skipped
           = Cardinality({n \in 1..Processed :
                            promote_document(loc[Admin].batch[n],
                                             loc[Admin].sf, loc[Admin].tf,
                                             now).success})

\* A dry run returned after a promotion that changed the document in memory.
C16_Witness ==
    /\ Returned
    /\ loc[Admin].dry_run
    /\ loc[Admin].stats.skipped >= 1
    /\ lastWrite.success
    /\ lastWrite.after # lastWrite.snap
    /\ store[DocSlot(lastWrite.snap)] = lastWrite.snap

\* The latest iteration failed: promote_document returned success=false, or
\* the run is no dry run and the collection did not take the write
StepFailed ==
    \/ ~lastWrite.success
    \/ ~loc[Admin].dry_run /\ store = lastWrite.before

C17_SetNestedAllOrNothing ==
    lastWrite.op = "set" =>
      /\ ~lastWrite.ok => cdoc = cprev
      /\ lastWrite.ok =>
           get_nested_field(cdoc, lastWrite.sf) = lastWrite.data

\* A path of three segments was refused at its second segment, below a map
\* that exists.
C17_Witness ==
    /\ lastWrite.op = "set"
    /\ ~lastWrite.ok
    /\ Len(lastWrite.sf) = 3
    /\ IsDict(Get(cprev, lastWrite.sf[1]))
    /\ Has(Get(cprev, lastWrite.sf[1]), lastWrite.sf[2])
    /\ cdoc = cprev

\* C18: promote_document on a document that has nothing at the source path
\* (a segment is missing, the path passes through a value that is no map, or
\* the value there is None) returns success=false and leaves the document as
\* it was: the target is not written and no transformation record is added.
C18_PromoteAbsentSource ==
    (lastWrite.op = "promote"
       /\ get_nested_field(cprev, lastWrite.sf) = PyNone) =>
      /\ ~lastWrite.ok
      /\ cdoc = cprev

\* The source path passed through a scalar and the promotion was refused,
\* although the target could have been written.
C18_Witness ==
    /\ lastWrite.op = "promote"
    /\ ~lastWrite.ok
    /\ Len(lastWrite.sf) >= 2
    /\ Has(cprev, lastWrite.sf[1])
    /\ ~IsDict(cprev.v[lastWrite.sf[1]])
    /\ cprev.v[lastWrite.sf[1]] # PyNone
    /\ set_nested_field(cprev, lastWrite.tf, PyNone).ok
    /\ cdoc = cprev

\* Control characters (the line feed, the tab and the carriage return of the
\* alphabet) and whitespace
IsControl(c) == c \in {"\n", "\t", "\r"}

IsWhitespace(c) == c \in {" ", "\n", "\t", "\r"}

\* A field path the promoter is specified to reject
InvalidPath(p) ==
    \/ p = <<>>
    \/ \E i \in 1..(Len(p) - 1) : p[i] = "." /\ p[i + 1] = "."
    \/ p[1] = "."
    \/ p[Len(p)] = "."
    \/ \E i \in 1..Len(p) : IsWhitespace(p[i]) \/ IsControl(p[i]) \/ p[i] = "$"

\* A filter one of whose comma-separated parts has no "="
InvalidFilter(f) ==
    /\ f # PyNone
    /\ f.v # <<>>
    /\ \E i \in 1..Len(SplitOn(f.v, ",")) : ~Contains(SplitOn(f.v, ",")[i], "=")

\* C20: when the source or target field path is invalid (empty, consecutive
\* dots, leading or trailing dot, whitespace, a control character or "$") or
\* a filter part has no "=", the run leaves its start only by exiting with a
\* non-zero code, and it never connects to the store or reads from it.
C20_ValidationBeforeStore ==
    LET l == loc[Admin] IN
    (\/ InvalidPath(l.args.source_field)
     \/ InvalidPath(l.args.target_field)
     \/ InvalidFilter(l.args.filter)) =>
      /\ pc[Admin] \in {"idle", "exited"}
      /\ ~l.connected
      /\ ~l.read
      /\ pc[Admin] = "exited" => l.code # Num(0)

\* The answers by which the operator says y or yes
Consent ==
    {<<"y">>, <<"y", "e", "s">>, <<"Y">>, <<" ", "y", "e", "s", " ">>}

\* C21: in a promoter run that retrieved more than ConfirmThreshold
\* documents without --yes the store is written only after the operator
\* answered y or yes to the prompt; after any other answer the run has
\* exited with code 0 and the store is as the run found it.  Without --all
\* at most PromoLimit documents are retrieved and the prompt is not shown.
C21_ConfirmationGate ==
    LET l == loc[Admin] IN
    l # IdleLoc =>
      /\ (Len(l.batch) > ConfirmThreshold /\ ~l.args.yes) =>
           /\ l.prompted
           /\ l.args.response \notin Consent =>
                /\ store = l.start
                /\ pc[Admin] = "exited"
                /\ l.code = Num(0)
           /\ store # l.start => l.args.response \in Consent
      /\ ~l.args.all => Len(l.batch) <= PromoLimit /\ ~l.prompted

\* The operator consented to a run over more than ConfirmThreshold documents
\* and a promotion was persisted.
C21_Witness ==
    /\ loc[Admin] # IdleLoc
    /\ loc[Admin].prompted
    /\ loc[Admin].args.response \in Consent
    /\ Len(loc[Admin].batch) > ConfirmThreshold
    /\ store # loc[Admin].start
    /\ loc[Admin].stats.updated >= 1

\* C22: the conversion of a well-formed long designator YYYY-NNNX (launch
\* year from 1957 on, sequence 001..999, one or more piece letters) is the
\* short form YY NNN X, the conversion of that short form is the designator
\* given, and a malformed designator converts to None.
C22_DesignatorRoundTrip ==
    /\ \A y \in LaunchYears, n \in LaunchNumbers, p \in Pieces :
         cdoc = Text(LongForm(y, n, p)) =>
           /\ cruns = 1 =>
                cprev = Text(ZeroPad(Decimal(y % 100), 2)
                             \o Format03(n) \o p)
           /\ cruns = 2 => cprev = cdoc
    /\ (cdoc.v \in MalformedDesignators /\ cruns >= 1) => cprev = PyNone

\* C23: for one request on one collection, the count returned by
\* count_satellites is the length of the page search_satellites returns with
\* skip 0 and a limit that cuts nothing.
C23_CountIsSearchLength ==
    (/\ lastWrite # NoWrite
     /\ loc[Admin] # IdleLoc
     /\ lastWrite.skip = 0
     /\ lastWrite.limit = 0 \/ lastWrite.limit >= Cardinality(Live(store)))
    => loc[Admin].n = Len(lastWrite.result)

\* A request with every filter given selected some envelope and left another
\* out, and both functions answered.
C23_Witness ==
    /\ lastWrite # NoWrite
    /\ loc[Admin] # IdleLoc
    /\ lastWrite.skip = 0
    /\ lastWrite.limit = 0
    /\ \A f \in DOMAIN cdoc.v : Given(cdoc.v[f])
    /\ loc[Admin].n >= 1
    /\ loc[Admin].n < Cardinality(Live(store))

\* A step of the merge loop that wrote
MergeWrote == lastWrite'.op = "merge" /\ now' = now + 1

\* C24: a writing step of merge_kaggle_sources keeps every source record of
\* the collection in some envelope, and the envelope it deletes is another
\* one than the envelope the kaggle_1 record was merged into.
C24_MergeKeepsRecords ==
    [][MergeWrote =>
         /\ \A i \in Live(store) :
              \A s \in Range(Keys(Sources(store[i]))) :
                \E j \in Live(store') :
                   /\ Has(Sources(store'[j]), s)
                   /\ Get(Sources(store'[j]), s) = Get(Sources(store[i]), s)
         /\ \A i \in Live(store) \ Live(store') :
              IdentifierOf(store[i]) # lastWrite'.id]_vars

\* The envelopes holding the record of a source with the given designator
Holding(source, designator) ==
    {i \in Live(store) :
        get_nested_field(store[i],
                         <<"sources", source, "international_designator">>)
          = Text(designator)}

\* C25: once the UNOOSA record 1998-067A and the CelesTrak record 98067A of
\* the same object are both imported, in either order, one envelope holds
\* both and no other envelope holds either.
C25_OneEnvelopePerObject ==
    LET U == Holding("unoosa",
                     <<"1", "9", "9", "8", "-", "0", "6", "7", "A">>)
        C == Holding("celestrak", <<"9", "8", "0", "6", "7", "A">>)
    IN  (U # {} /\ C # {}) => (U = C /\ Cardinality(U) = 1)

\* C26: what a lookup of the TLE cache, the document-link cache or the
\* document-metadata cache hands to its caller is younger than CACHE_TTL at
\* the time of the lookup.
C26_NoExpiredEntry ==
    (lastWrite # NoWrite /\ lastWrite.returned # PyNone)
    => lastWrite.time - lastWrite.returned.at < CACHE_TTL

InTrack == pc[Admin] \in {"tracking", "returned"}

\* The futures the coordinating thread handled that carried no TLE
HandledFailed ==
    {n \in loc[Admin].handled : loc[Admin].fut[n].result.tle_data = PyNone}

\* C27: in a Space-Track run, the envelope of every handled satellite whose
\* login or fetch gave no TLE is as the run found it, failed counts those
\* satellites and updated the others handled, and when the run has returned
\* every satellite was handled and updated + failed = total.
C27_FailedFetchLeavesEnvelope ==
    InTrack =>
      LET l == loc[Admin] IN
      /\ \A n \in HandledFailed :
           FindByIdentifier(store, IdentifierOf(l.docs[n])) = l.docs[n]
      /\ l.failed = Cardinality(HandledFailed)
      /\ l.updated = Cardinality(l.handled \ HandledFailed)
      /\ pc[Admin] = "returned" =>
           /\ l.handled = DOMAIN l.fut
           /\ l.updated + l.failed = l.total

\* A run over two satellites returned after one failed (login refused) and
\* the other was written.
C27_Witness ==
    /\ pc[Admin] = "returned"
    /\ loc[Admin].total = 2
    /\ loc[Admin].failed = 1
    /\ loc[Admin].updated = 1
    /\ \E n \in HandledFailed : loc[Admin].fut[n].session = 0
    /\ store # loc[Admin].start

\* C29: in a Space-Track run a worker hands back the envelope it was given,
\* unchanged and as the collection held it when the run began; no two
\* workers share a session; the collection differs from the one the run
\* found only in envelopes whose future the coordinating thread handled and
\* wrote; and no identifier is written twice.
C29_WorkersOnlyFetch ==
    InTrack =>
      LET l == loc[Admin] IN
      /\ \A n \in DOMAIN l.fut :
           /\ FindByIdentifier(l.start, IdentifierOf(l.docs[n])) = l.docs[n]
           /\ l.fut[n].stage = "done" => l.fut[n].result.sat = l.docs[n]
      /\ \A n, m \in DOMAIN l.fut :
           (n # m /\ l.fut[n].session # 0) =>
              l.fut[n].session # l.fut[m].session
      /\ \A i \in DOMAIN store :
           store[i] # l.start[i] =>
             \E n \in l.handled :
                /\ IdentifierOf(l.docs[n]) = IdentifierOf(l.start[i])
                /\ l.fut[n].result.tle_data # PyNone
      /\ \A j, k \in 1..Len(l.writes) : j # k => l.writes[j] # l.writes[k]

\* The coordinating thread has written one envelope while the worker of the
\* other satellite is still between its login and its query.
C29_Witness ==
    /\ pc[Admin] = "tracking"
    /\ Len(loc[Admin].writes) = 1
    /\ store # loc[Admin].start
    /\ \E n \in DOMAIN loc[Admin].fut :
         /\ loc[Admin].fut[n].stage = "session"
         /\ n \notin loc[Admin].handled

\* C28: in a run of a CelesTrak importer no feed URL is requested more than
\* once, whatever the requests returned.
C28_NoRefetch ==
    pc[Admin] \in {"fetching", "processing"} =>
      \A u \in DOMAIN loc[Admin].requests : loc[Admin].requests[u] <= 1

\* The source records of an envelope without their timestamps
SourceContents(doc) ==
    [s \in Range(Keys(Sources(doc))) |->
        Without(Get(Sources(doc), s), "updated_at")]

\* C30: after two upserts of distinct sources, both listed in the configured
\* source_priority, to one identifier, the source records and the canonical
\* section do not depend on the order of the two calls, updated_at aside.
C30_UpsertsCommute ==
    (/\ cruns = 2
     /\ InSeq(lastWrite.a, ConfiguredPriority(cdoc))
     /\ InSeq(lastWrite.b, ConfiguredPriority(cdoc)))
    => /\ SourceContents(cdoc) = SourceContents(cprev)
       /\ Without(Canonical(cdoc), "updated_at")
            = Without(Canonical(cprev), "updated_at")

\* Both orders were run for two listed sources that give different names, and
\* the two envelopes list their sources in different orders.
C30_Witness ==
    /\ cruns = 2
    /\ InSeq(lastWrite.a, ConfiguredPriority(cdoc))
    /\ InSeq(lastWrite.b, ConfiguredPriority(cdoc))
    /\ Get(lastWrite.da, "name") # Get(lastWrite.db, "name")
    /\ Get(lastWrite.da, "name") # Str("")
    /\ Get(lastWrite.db, "name") # Str("")
    /\ Keys(Sources(cdoc)) # Keys(Sources(cprev))

====
